---- MODULE Spec2Model ----
(***************************************************************************)
(* Content-selector inference of html2md (src/src/html2md/config.py) and   *)
(* the stand-alone generate_config.py script.                              *)
(*                                                                         *)
(* Strings are sequences of one-character strings, so that concatenation,  *)
(* substring tests, lower-casing and lexicographic comparison are computed *)
(* and not assumed.  Scores are exact rationals in units of 1/ScoreDen.    *)
(***************************************************************************)
EXTENDS Integers, Sequences, FiniteSets, TLC

(***************************************************************************)
(* Bounds                                                                  *)
(***************************************************************************)
\* largest number of .html files in the scanned directory
MaxFiles == 2

(***************************************************************************)
(* Strings                                                                 *)
(***************************************************************************)
\* the characters used, in code point order (Python compares str by code point)
Alphabet ==
  << " ", "\"", "*", ",", "-", ".", "=",
     "A", "B", "C", "D", "E", "F", "G", "H", "I", "J", "K", "L", "M",
     "N", "O", "P", "Q", "R", "S", "T", "U", "V", "W", "X", "Y", "Z",
     "[", "]",
     "a", "b", "c", "d", "e", "f", "g", "h", "i", "j", "k", "l", "m",
     "n", "o", "p", "q", "r", "s", "t", "u", "v", "w", "x", "y", "z" >>

Ord(c) == CHOOSE i \in 1..Len(Alphabet) : Alphabet[i] = c

UpperCase == <<"A", "B", "C", "D", "E", "F", "G", "H", "I", "J", "K", "L", "M",
               "N", "O", "P", "Q", "R", "S", "T", "U", "V", "W", "X", "Y", "Z">>

LowerCase == <<"a", "b", "c", "d", "e", "f", "g", "h", "i", "j", "k", "l", "m",
               "n", "o", "p", "q", "r", "s", "t", "u", "v", "w", "x", "y", "z">>

\* str.lower() on one character
LowerChar(c) ==
  IF \E i \in 1..Len(UpperCase) : UpperCase[i] = c
  THEN LowerCase[CHOOSE i \in 1..Len(UpperCase) : UpperCase[i] = c]
  ELSE c

\* str.lower()
Lower(s) == [i \in 1..Len(s) |-> LowerChar(s[i])]

\* Python's  sub in s
Contains(s, sub) ==
  \E i \in 0..(Len(s) - Len(sub)) :
    \A j \in 1..Len(sub) : s[i + j] = sub[j]

\* Python's  a < b  on str
StrLess(a, b) ==
  \/ /\ Len(a) < Len(b)
     /\ \A i \in 1..Len(a) : a[i] = b[i]
  \/ \E k \in 1..(IF Len(a) < Len(b) THEN Len(a) ELSE Len(b)) :
       /\ \A i \in 1..(k - 1) : a[i] = b[i]
       /\ Ord(a[k]) < Ord(b[k])

Min(a, b) == IF a < b THEN a ELSE b

\* variant of SortedStrings: descending order
RECURSIVE SortedStrings_Descending(_)
SortedStrings_Descending(S) ==
  IF S = {} THEN <<>>
  ELSE LET m == CHOOSE x \in S : \A y \in S \ {x} : StrLess(y, x)
       IN  <<m>> \o SortedStrings_Descending(S \ {m})

\* sorted(S) for a set of str
RECURSIVE SortedStrings(_)
SortedStrings(S) ==
  IF S = {} THEN <<>>
  ELSE LET m == CHOOSE x \in S : \A y \in S \ {x} : StrLess(x, y)
       IN  <<m>> \o SortedStrings(S \ {m})

\* sep.join(parts)
RECURSIVE Join(_, _)
Join(sep, parts) ==
  IF parts = <<>> THEN <<>>
  ELSE IF Len(parts) = 1 THEN parts[1]
  ELSE parts[1] \o sep \o Join(sep, Tail(parts))

\* the set of members of a sequence
Range(s) == {s[i] : i \in 1..Len(s)}

(***************************************************************************)
(* String literals                                                         *)
(***************************************************************************)
s_main == <<"m", "a", "i", "n">>

s_article == <<"a", "r", "t", "i", "c", "l", "e">>

s_section == <<"s", "e", "c", "t", "i", "o", "n">>

s_div == <<"d", "i", "v">>

s_header == <<"h", "e", "a", "d", "e", "r">>

s_footer == <<"f", "o", "o", "t", "e", "r">>

s_nav == <<"n", "a", "v">>

s_script == <<"s", "c", "r", "i", "p", "t">>

s_style == <<"s", "t", "y", "l", "e">>

s_noscript == <<"n", "o", "s", "c", "r", "i", "p", "t">>

s_iframe == <<"i", "f", "r", "a", "m", "e">>

s_form == <<"f", "o", "r", "m">>

s_button == <<"b", "u", "t", "t", "o", "n">>

s_input == <<"i", "n", "p", "u", "t">>

s_select == <<"s", "e", "l", "e", "c", "t">>

s_content == <<"c", "o", "n", "t", "e", "n", "t">>

s_navbar == <<"n", "a", "v", "b", "a", "r">>

s_btn == <<"b", "t", "n">>

s_banner == <<"b", "a", "n", "n", "e", "r">>

s_navigation == <<"n", "a", "v", "i", "g", "a", "t", "i", "o", "n">>

s_menu == <<"m", "e", "n", "u">>

s_search == <<"s", "e", "a", "r", "c", "h">>

s_Main_Content == <<"M", "a", "i", "n", "-", "C", "o", "n", "t", "e", "n", "t">>

s_hero == <<"h", "e", "r", "o">>

\* the separator of ', '.join(...)
s_comma_space == <<",", " ">>

\* the pieces of the f-strings that build a selector
s_role_open == <<"[", "r", "o", "l", "e", "=", "\"">>

s_attr_close == <<"\"", "]">>

s_class_open == <<"[", "c", "l", "a", "s", "s", "*", "=", "\"">>

s_dot == <<".">>

(***************************************************************************)
(* Scores                                                                  *)
(***************************************************************************)
\* A score x is held as the integer x * ScoreDen.  Every score of the model
\* is a multiple of 1/ScoreDen: text_length / 1000, n / 5, and
\* text_length / total_elements / 100 for total_elements dividing 600.
\* On the pages below the float scores of the code compare (<, =, > 5) as
\* these exact values do.
ScoreDen == 1000 * 60

\* the  > 5  of the top-selector filter
ScoreThreshold == 5 * ScoreDen

(***************************************************************************)
(* Element Scorer                                                          *)
(***************************************************************************)
\* soup.find_all(['main', 'article', 'section', 'div'])
ContainerTags == {s_main, s_article, s_section, s_div}

\* the text-length gate: not text or len(text) < 50
MinTextLength == 50

\* content_class_indicators, in insertion order; points in units of 1/ScoreDen
content_class_indicators ==
  << [indicator |-> s_content,   points |-> 2 * ScoreDen],
     [indicator |-> s_main,      points |-> 2 * ScoreDen],
     [indicator |-> s_article,   points |-> (3 * ScoreDen) \div 2],
     [indicator |-> <<"c","o","n","t","a","i","n","e","r">>, points |-> ScoreDen],
     [indicator |-> s_section,   points |-> ScoreDen \div 2] >>

\* variant of SkipElement: the gate one character too low
SkipElement_OffByOne(element) ==
  element.text_length = 0 \/ element.text_length < MinTextLength - 1

\* element.get_text(strip=True) is empty or shorter than 50: the element is skipped
SkipElement(element) ==
  element.text_length = 0 \/ element.text_length < MinTextLength

\* variant of analyze_element_content: the density divides by the element
\* count plus one, the diversity by the number of categories present
analyze_element_content_Smoothed(element) ==
  LET text_length    == element.text_length
      total_elements == element.paragraphs + element.headings + element.links
                          + element.images + element.lists
      counts == << element.paragraphs, element.headings, element.links,
                   element.images, element.lists >>
      non_zero_types == Cardinality({i \in 1..Len(counts) : counts[i] > 0})
  IN  [ text_length       |-> text_length,
        content_density   |-> (text_length * ScoreDen) \div (total_elements + 1),
        content_diversity |-> IF non_zero_types = 0 THEN 0 ELSE ScoreDen,
        total_elements    |-> total_elements ]

analyze_element_content(element) ==
  LET text_length    == element.text_length
      total_elements == element.paragraphs + element.headings + element.links
                          + element.images + element.lists
      content_density ==
        IF total_elements = 0 THEN 0
        ELSE (text_length * ScoreDen) \div total_elements
      counts == << element.paragraphs, element.headings, element.links,
                   element.images, element.lists >>
      non_zero_types == Cardinality({i \in 1..Len(counts) : counts[i] > 0})
      content_diversity == (non_zero_types * ScoreDen) \div Len(counts)
  IN  [ text_length       |-> text_length,
        content_density   |-> content_density,
        content_diversity |-> content_diversity,
        total_elements    |-> total_elements ]

\* variant of TagBonus: role="main" earns its points on any container
TagBonus_RoleOnAnyTag(element) ==
  (IF element.name = s_main THEN 3 * ScoreDen
   ELSE IF element.name = s_article THEN 2 * ScoreDen
   ELSE IF element.name = s_section THEN ScoreDen
   ELSE 0)
  + (IF element.role = s_main THEN 2 * ScoreDen ELSE 0)

\* bonus points for semantic elements
TagBonus(element) ==
  IF element.name = s_main
  THEN 3 * ScoreDen + (IF element.role = s_main THEN 2 * ScoreDen ELSE 0)
  ELSE IF element.name = s_article THEN 2 * ScoreDen
  ELSE IF element.name = s_section THEN ScoreDen
  ELSE 0

\* variant of IndicatorPoints: a class earns the points of the first indicator
\* it contains only
RECURSIVE IndicatorPoints_FirstOnly(_, _)
IndicatorPoints_FirstOnly(cls_lower, k) ==
  IF k > Len(content_class_indicators) THEN 0
  ELSE IF Contains(cls_lower, content_class_indicators[k].indicator)
       THEN content_class_indicators[k].points
       ELSE IndicatorPoints_FirstOnly(cls_lower, k + 1)

\* the inner loop: for indicator, points in content_class_indicators.items()
RECURSIVE IndicatorPoints(_, _)
IndicatorPoints(cls_lower, k) ==
  IF k > Len(content_class_indicators) THEN 0
  ELSE (IF Contains(cls_lower, content_class_indicators[k].indicator)
        THEN content_class_indicators[k].points ELSE 0)
       + IndicatorPoints(cls_lower, k + 1)

\* the outer loop: for cls in classes
RECURSIVE class_score(_)
class_score(classes) ==
  IF classes = <<>> THEN 0
  ELSE IndicatorPoints(Lower(Head(classes)), 1) + class_score(Tail(classes))

\* min(class_score, 3)
ClassBonusCap == 3 * ScoreDen

\* variant of ClassBonus: the class points are added without the cap
ClassBonus_Uncapped(element) == class_score(element.classes)

ClassBonus(element) == Min(class_score(element.classes), ClassBonusCap)

\* variant of LengthComponent: the length points are not capped
LengthComponent_Uncapped(metrics) == (metrics.text_length * ScoreDen) \div 1000

\* min(metrics['text_length'] / 1000, 5)
LengthComponent(metrics) ==
  Min((metrics.text_length * ScoreDen) \div 1000, 5 * ScoreDen)

\* metrics['content_diversity'] * 3
DiversityComponent(metrics) == metrics.content_diversity * 3

\* min(metrics['content_density'] / 100, 2)
DensityComponent(metrics) ==
  Min(metrics.content_density \div 100, 2 * ScoreDen)

\* the score of one container: every  score +=  of the loop body
ElementScore(element) ==
  LET metrics == analyze_element_content(element)
  IN  LengthComponent(metrics)
      + DiversityComponent(metrics)
      + DensityComponent(metrics)
      + TagBonus(element)
      + ClassBonus(element)

IsSignificant(cls) ==
  \E k \in 1..Len(content_class_indicators) :
    Contains(Lower(cls), content_class_indicators[k].indicator)

significant_classes(classes) == SelectSeq(classes, IsSignificant)

\* variant of ElementSelector: the last indicator class is named, not the first
ElementSelector_LastClass(element) ==
  LET sig == significant_classes(element.classes)
  IN  element.name
      \o (IF element.role # <<>>
          THEN s_role_open \o element.role \o s_attr_close ELSE <<>>)
      \o (IF sig = <<>> THEN <<>>
          ELSE IF Len(sig) = 1 THEN s_dot \o sig[1]
          ELSE s_class_open \o sig[Len(sig)] \o s_attr_close)

\* ''.join(selector_parts)
ElementSelector(element) ==
  LET sig == significant_classes(element.classes)
  IN  element.name
      \o (IF element.role # <<>>
          THEN s_role_open \o element.role \o s_attr_close ELSE <<>>)
      \o (IF sig = <<>> THEN <<>>
          ELSE IF Len(sig) = 1 THEN s_dot \o sig[1]
          ELSE s_class_open \o sig[1] \o s_attr_close)

\* the list  selectors  after the loop over the containers: one
\* (selector, score) per qualifying container, in document order
RECURSIVE ScoredContainers(_)
ScoredContainers(page) ==
  IF page = <<>> THEN <<>>
  ELSE LET element == Head(page)
       IN  (IF element.name \in ContainerTags /\ ~SkipElement(element)
            THEN << [selector |-> ElementSelector(element),
                     score    |-> ElementScore(element)] >>
            ELSE <<>>)
           \o ScoredContainers(Tail(page))

\* variant of InsertByScore: x goes in front of the entries of equal score
RECURSIVE InsertByScore_Unstable(_, _)
InsertByScore_Unstable(sorted, x) ==
  IF sorted = <<>> THEN <<x>>
  ELSE IF Head(sorted).score > x.score
       THEN <<Head(sorted)>> \o InsertByScore_Unstable(Tail(sorted), x)
       ELSE <<x>> \o sorted

\* one step of a stable descending sort: x goes behind every entry whose
\* score is at least its own
RECURSIVE InsertByScore(_, _)
InsertByScore(sorted, x) ==
  IF sorted = <<>> THEN <<x>>
  ELSE IF Head(sorted).score >= x.score
       THEN <<Head(sorted)>> \o InsertByScore(Tail(sorted), x)
       ELSE <<x>> \o sorted

\* sorted(pairs, key=lambda x: x[1], reverse=True)
RECURSIVE SortByScoreDesc(_)
SortByScoreDesc(pairs) ==
  IF pairs = <<>> THEN <<>>
  ELSE InsertByScore(SortByScoreDesc(SubSeq(pairs, 1, Len(pairs) - 1)),
                     pairs[Len(pairs)])

\* keep the first pair of every selector
RECURSIVE UniqueSelectors(_, _)
UniqueSelectors(pairs, seen) ==
  IF pairs = <<>> THEN <<>>
  ELSE IF Head(pairs).selector \in seen
       THEN UniqueSelectors(Tail(pairs), seen)
       ELSE <<Head(pairs)>>
            \o UniqueSelectors(Tail(pairs), seen \cup {Head(pairs).selector})

extract_content_selectors(page) ==
  UniqueSelectors(SortByScoreDesc(ScoredContainers(page)), {})

(***************************************************************************)
(* Boilerplate detection                                                   *)
(***************************************************************************)
\* boilerplate_elements of extract_boilerplate_selectors
boilerplate_elements ==
  { s_header, s_footer, s_nav, s_script, s_style, s_noscript,
    s_iframe, s_form, s_button, s_input, s_select }

\* boilerplate_classes of extract_boilerplate_selectors (substring indicators)
boilerplate_classes ==
  { s_navbar, <<"n","a","v","-","i","t","e","m">>, s_btn, s_footer, s_banner,
    <<"s","l","i","d","e","c","o","n","t","a","i","n","e","r">>,
    <<"r","a","t","i","o">> }

\* every class of every element of the page
PageClasses(page) ==
  UNION { Range(page[i].classes) : i \in 1..Len(page) }

\* every tag name of the page
PageTags(page) == { page[i].name : i \in 1..Len(page) }

\* variant of IsBoilerplateClass: the class is not lower-cased
IsBoilerplateClass_CaseSensitive(cls) ==
  \E indicator \in boilerplate_classes : Contains(cls, indicator)

IsBoilerplateClass(cls) ==
  \E indicator \in boilerplate_classes : Contains(Lower(cls), indicator)

extract_boilerplate_selectors(page) ==
  [ elements |-> { name \in PageTags(page) : name \in boilerplate_elements },
    classes  |-> { cls \in PageClasses(page) : IsBoilerplateClass(cls) } ]

\* boilerplate_elements of the generate_config.py script
script_boilerplate_elements ==
  { s_header, s_footer, s_nav, <<"a","s","i","d","e">>, s_script, s_style,
    s_noscript, s_iframe, s_form, s_button, s_input, s_select,
    <<"t","e","x","t","a","r","e","a">>, <<"m","e","t","a">>,
    <<"l","i","n","k">>, <<"i","m","g">> }

\* boilerplate_classes of the generate_config.py script (exact names)
script_boilerplate_classes ==
  { s_header, s_footer, s_nav, s_navigation, s_menu,
    <<"s","i","d","e","b","a","r">>,
    <<"a","d","v","e","r","t","i","s","e","m","e","n","t">>, <<"a","d">>,
    <<"s","o","c","i","a","l">>, <<"s","h","a","r","e">>,
    <<"c","o","m","m","e","n","t">>, s_form, s_search,
    <<"l","o","g","i","n">>, <<"s","i","g","n","u","p">>, s_button, s_btn,
    <<"m","o","d","a","l">>, <<"p","o","p","u","p">>,
    <<"c","o","o","k","i","e">>, s_banner, <<"a","l","e","r","t">>,
    <<"n","o","t","i","f","i","c","a","t","i","o","n">> }

extract_classes_and_elements(page) ==
  [ elements |-> PageTags(page) \cap script_boilerplate_elements,
    classes  |-> PageClasses(page) \cap script_boilerplate_classes ]

(***************************************************************************)
(* Pages: what the HTML parser hands to the scorer.  A page is the list of *)
(* its elements in document order; an element carries its tag name, its   *)
(* role and class attributes, the length of its stripped text and the     *)
(* numbers of its p, h1-h6, a, img and ul/ol descendants.                  *)
(***************************************************************************)
El(name, role, classes, text_length, p, h, a, img, l) ==
  [ name |-> name, role |-> role, classes |-> classes,
    text_length |-> text_length,
    paragraphs |-> p, headings |-> h, links |-> a, images |-> img, lists |-> l ]

\* nav, <main role="main"> with varied content, a two-indicator div, footer
PageHome ==
  << El(s_nav,    <<>>,   <<s_navbar, s_nav>>,     20,   0, 0, 3, 0, 1),
     El(s_main,   s_main, <<>>,                    1200, 2, 1, 1, 0, 0),
     El(s_div,    <<>>,   <<s_content, s_main>>,   3000, 0, 0, 0, 0, 0),
     El(s_footer, <<>>,   <<s_footer>>,            30,   0, 0, 1, 0, 0) >>

\* an article met first with a low score and again with a higher one
PageBlog ==
  << El(s_article, <<>>, <<>>,              3500, 0, 0, 0, 0, 0),
     El(s_section, <<>>, <<>>,              5000, 0, 0, 0, 0, 0),
     El(s_article, <<>>, <<>>,              4000, 0, 0, 0, 0, 0),
     El(s_button,  <<>>, << <<"B","t","n","-","P","r","i","m","a","r","y">>, s_btn >>,
        6, 0, 0, 0, 0, 0) >>

\* divs at and around the gates: score 6.0, score exactly 5.0, empty, 49 chars
PageDocs ==
  << El(s_header, <<>>, <<s_banner, s_hero>>, 40,   0, 1, 0, 1, 0),
     El(s_div,    <<>>, <<s_content>>,        4000, 0, 0, 0, 0, 0),
     El(s_div,    <<>>, <<>>,                 5000, 0, 0, 0, 0, 0),
     El(s_div,    <<>>, <<>>,                 0,    0, 0, 0, 0, 0),
     El(s_div,    <<>>, <<s_Main_Content>>,   49,   1, 0, 0, 0, 0) >>

\* a long div with one paragraph (7.6), an article at exactly 5.0, a section
\* of exactly 50 characters, a form
PageLong ==
  << El(s_div,     <<>>, <<>>,         5000, 1, 0, 0, 0, 0),
     El(s_article, <<>>, <<>>,         3000, 0, 0, 0, 0, 0),
     El(s_section, <<>>, <<>>,         50,   0, 0, 0, 0, 0),
     El(s_form,    <<>>, <<s_search>>, 10,   0, 0, 0, 0, 0) >>

\* a stub: its <main role="main"> has fewer than 50 characters
PageStub ==
  << El(s_main,   s_main, <<>>, 49, 1, 0, 0, 0, 0),
     El(s_script, <<>>,   <<>>, 0,  0, 0, 0, 0, 0) >>

\* three more pages with a <main role="main"> of varied content: 60, 800 and
\* 5000 characters, with paragraphs, headings and links
PageAbout ==
  << El(s_header, <<>>,   <<>>, 20, 0, 0, 2, 0, 0),
     El(s_main,   s_main, <<>>, 60, 1, 1, 1, 0, 0) >>

PageContact ==
  << El(s_main,   s_main, <<>>,       800, 3, 1, 2, 0, 0),
     El(s_footer, <<>>,   <<s_menu>>, 30,  0, 0, 2, 0, 0) >>

PageNews ==
  << El(s_main, s_main, <<>>, 5000, 2, 1, 1, 1, 1) >>

\* a page whose <main> has a role attribute with a comma in its value
PageLegacy ==
  << El(s_main, <<"m","a","i","n",",","c","o","n","t","e","n","t">>, <<>>,
        1200, 2, 1, 1, 0, 0) >>

\* the pages by name
PageContent ==
  [ home |-> PageHome, blog |-> PageBlog, docs |-> PageDocs,
    long |-> PageLong, stub |-> PageStub,
    about |-> PageAbout, contact |-> PageContact, news |-> PageNews,
    legacy |-> PageLegacy ]

\* the pages a file of the scanned directory can hold
Pages == {"home", "blog", "docs", "long", "stub"}

\* BeautifulSoup(content, 'lxml') on the content read from the file
Html(file) == PageContent[file.page]

\* the results of the extractions on each page, computed once per page
ContentSelectorsOf ==
  [ home |-> extract_content_selectors(PageHome),
    blog |-> extract_content_selectors(PageBlog),
    docs |-> extract_content_selectors(PageDocs),
    long |-> extract_content_selectors(PageLong),
    stub |-> extract_content_selectors(PageStub),
    about |-> extract_content_selectors(PageAbout),
    contact |-> extract_content_selectors(PageContact),
    news |-> extract_content_selectors(PageNews),
    legacy |-> extract_content_selectors(PageLegacy) ]

BoilerplateOf ==
  [ home |-> extract_boilerplate_selectors(PageHome),
    blog |-> extract_boilerplate_selectors(PageBlog),
    docs |-> extract_boilerplate_selectors(PageDocs),
    long |-> extract_boilerplate_selectors(PageLong),
    stub |-> extract_boilerplate_selectors(PageStub),
    about |-> extract_boilerplate_selectors(PageAbout),
    contact |-> extract_boilerplate_selectors(PageContact),
    news |-> extract_boilerplate_selectors(PageNews),
    legacy |-> extract_boilerplate_selectors(PageLegacy) ]

ClassesAndElementsOf ==
  [ home |-> extract_classes_and_elements(PageHome),
    blog |-> extract_classes_and_elements(PageBlog),
    docs |-> extract_classes_and_elements(PageDocs),
    long |-> extract_classes_and_elements(PageLong),
    stub |-> extract_classes_and_elements(PageStub),
    about |-> extract_classes_and_elements(PageAbout),
    contact |-> extract_classes_and_elements(PageContact),
    news |-> extract_classes_and_elements(PageNews),
    legacy |-> extract_classes_and_elements(PageLegacy) ]

ScoredContainersOf ==
  [ home |-> ScoredContainers(PageHome),
    blog |-> ScoredContainers(PageBlog),
    docs |-> ScoredContainers(PageDocs),
    long |-> ScoredContainers(PageLong),
    stub |-> ScoredContainers(PageStub),
    about |-> ScoredContainers(PageAbout),
    contact |-> ScoredContainers(PageContact),
    news |-> ScoredContainers(PageNews),
    legacy |-> ScoredContainers(PageLegacy) ]

(***************************************************************************)
(* Corpus Aggregator and Selector Synthesizer                              *)
(***************************************************************************)
\* the two programs: html2md.config (src/src/html2md/config.py) and the
\* stand-alone script generate_config.py
Programs == {"config", "script"}

\* where the processing of a file can raise, inside the try block
FailPoints(program) ==
  IF program = "config" THEN {"none", "read", "content", "boilerplate"}
  ELSE {"none", "read", "extract"}

\* variant of Caught: the file is opened and read outside the try block
Caught_ParseOnly(fail) == fail \in {"content", "boilerplate", "extract"}

\* except Exception: every failure of the try block is an Exception
Caught(fail) == fail \in {"read", "content", "boilerplate", "extract"}

\* variant of ContentAfter: the candidates of a file replace the accumulated
\* list
ContentAfter_Overwrite(acs, file) ==
  IF file.fail \in {"none", "boilerplate"}
  THEN ContentSelectorsOf[file.page]
  ELSE acs

\* all_content_selectors after the try block has run on one file: the extend
\* of line 219 has happened unless open/read or extract_content_selectors raised
ContentAfter(acs, file) ==
  IF file.fail \in {"none", "boilerplate"}
  THEN acs \o ContentSelectorsOf[file.page]
  ELSE acs

\* all_boilerplate after the try block has run on one file
BoilerplateAfter(ab, file) ==
  IF file.fail = "none"
  THEN LET boilerplate == BoilerplateOf[file.page]
       IN  [ elements |-> ab.elements \cup boilerplate.elements,
             classes  |-> ab.classes \cup boilerplate.classes ]
  ELSE ab

\* variant of UpdateScore: the score seen last replaces the stored one
UpdateScore_LastWins(scores, pair) ==
  IF \E i \in 1..Len(scores) : scores[i].selector = pair.selector
  THEN [ i \in 1..Len(scores) |->
           IF scores[i].selector = pair.selector THEN pair ELSE scores[i] ]
  ELSE Append(scores, pair)

\* variant of UpdateScore: the score seen first is kept
UpdateScore_FirstWins(scores, pair) ==
  IF \E i \in 1..Len(scores) : scores[i].selector = pair.selector
  THEN scores
  ELSE Append(scores, pair)

\* variant of UpdateScore: the scores of a selector add up
UpdateScore_Sum(scores, pair) ==
  IF \E i \in 1..Len(scores) : scores[i].selector = pair.selector
  THEN [ i \in 1..Len(scores) |->
           IF scores[i].selector = pair.selector
           THEN [ selector |-> pair.selector,
                  score    |-> scores[i].score + pair.score ]
           ELSE scores[i] ]
  ELSE Append(scores, pair)

\* selector_scores[selector] = max(selector_scores[selector], score), or a new
\* key at the end of the dict
UpdateScore(scores, pair) ==
  IF \E i \in 1..Len(scores) : scores[i].selector = pair.selector
  THEN [ i \in 1..Len(scores) |->
           IF scores[i].selector = pair.selector
           THEN [ selector |-> pair.selector,
                  score    |-> IF scores[i].score >= pair.score
                               THEN scores[i].score ELSE pair.score ]
           ELSE scores[i] ]
  ELSE Append(scores, pair)

\* the loop building selector_scores; the dict is held as the list of its
\* items in insertion order
RECURSIVE CombineScores(_)
CombineScores(pairs) ==
  IF pairs = <<>> THEN <<>>
  ELSE UpdateScore(CombineScores(SubSeq(pairs, 1, Len(pairs) - 1)),
                   pairs[Len(pairs)])

\* variant of AboveThreshold: score >= 5
AboveThreshold_Inclusive(pair) == pair.score >= ScoreThreshold

\* the filter of the top selectors: score > 5
AboveThreshold(pair) == pair.score > ScoreThreshold

top_selectors(scores) == SortByScoreDesc(SelectSeq(scores, AboveThreshold))

\* analysis['content_selectors'][:3]
TopN == 3

\* variant of content_selector_of: every returned selector is joined
content_selector_of_All(content_selectors) ==
  Join(s_comma_space, content_selectors)

content_selector_of(content_selectors) ==
  Join(s_comma_space, SubSeq(content_selectors, 1, Min(TopN, Len(content_selectors))))

\* f".{cls}"
ClassSelector(cls) == s_dot \o cls

exclude_selectors_of(boilerplate) ==
  SortedStrings(boilerplate.elements)
    \o SortedStrings({ ClassSelector(cls) : cls \in boilerplate.classes })

\* the script: exclude_selectors from the two sorted lists of the analysis
script_exclude_selectors_of(an) ==
  an.elements \o [ i \in 1..Len(an.classes) |-> ClassSelector(an.classes[i]) ]

\* 'main[role="main"]', the fixed content_selector of the script
script_content_selector == s_main \o s_role_open \o s_main \o s_attr_close

VARIABLES
  prog,                   \* the program that runs
  files,                  \* the .html files of the directory: page and failure
  pending,                \* files os.walk has not yielded yet
  visited,                \* history: the files in the order they were yielded
  discovered,             \* history: selectors in the order their elements were scored
  all_content_selectors,  \* config: the accumulated (selector, score) list
  all_boilerplate,        \* config: the accumulated boilerplate sets
  all_classes,            \* script: accumulated boilerplate classes
  all_elements,           \* script: accumulated boilerplate elements
  selector_scores,        \* config: selector -> max score, in insertion order
  analysis,               \* what analyze_html_files returned
  config,                 \* the configuration generate_config wrote
  pc,                     \* "scan", "analyzed", "done", "raised", "write_failed";
                          \* "scorer", "scored" when one element is scored
  dir_exists,             \* whether the directory given to the program exists
  candidate,              \* the element handed to the scorer
  scored,                 \* what the scorer appended for it
  written,                \* conversion: the .md file written for each .html file
  log,                    \* conversion: what process_directory did with each file
  runs,                   \* consolidation: what each run of consolidate_markdown found
  consolidated_md         \* consolidation: the output directory holds consolidated.md

vars == << prog, files, pending, visited, discovered, all_content_selectors,
           all_boilerplate, all_classes, all_elements, selector_scores,
           analysis, config, pc, dir_exists, candidate, scored,
           written, log, runs, consolidated_md >>

EmptyBoilerplate == [ elements |-> {}, classes |-> {} ]

EmptyConfig == [ content_selector |-> <<>>, exclude_selectors |-> <<>> ]

\* what the scorer appends: nothing, or one (selector, score) pair
NotScored == [ produced |-> FALSE, selector |-> <<>>, score |-> 0 ]

\* os.walk yields no file for a directory that does not exist
Init ==
  /\ prog \in Programs
  /\ dir_exists \in BOOLEAN
  /\ \E n \in 0..(IF dir_exists THEN MaxFiles ELSE 0) :
       files \in [ 1..n -> [ page : Pages, fail : FailPoints(prog) ] ]
  /\ candidate = <<>>
  /\ scored = NotScored
  /\ written = <<>>
  /\ log = <<>>
  /\ runs = <<>>
  /\ consolidated_md = FALSE
  /\ pending = DOMAIN files
  /\ visited = <<>>
  /\ discovered = <<>>
  /\ all_content_selectors = <<>>
  /\ all_boilerplate = EmptyBoilerplate
  /\ all_classes = {}
  /\ all_elements = {}
  /\ selector_scores = <<>>
  /\ analysis = IF prog = "config"
                THEN [ content_selectors |-> <<>>, boilerplate |-> EmptyBoilerplate ]
                ELSE [ classes |-> <<>>, elements |-> <<>> ]
  /\ config = EmptyConfig
  /\ pc = "scan"

\* selectors in the order in which their elements are met
RECURSIVE AppendNew(_, _)
AppendNew(seen, pairs) ==
  IF pairs = <<>> THEN seen
  ELSE AppendNew(IF Head(pairs).selector \in Range(seen) THEN seen
                 ELSE Append(seen, Head(pairs).selector),
                 Tail(pairs))

\* one iteration of the scan loop of config.analyze_html_files
ProcessFile(f) ==
  /\ prog = "config"
  /\ pc = "scan"
  /\ f \in pending
  /\ pending' = pending \ {f}
  /\ visited' = Append(visited, f)
  /\ all_content_selectors' = ContentAfter(all_content_selectors, files[f])
  /\ all_boilerplate' = BoilerplateAfter(all_boilerplate, files[f])
  /\ discovered' = IF files[f].fail \in {"none", "boilerplate"}
                   THEN AppendNew(discovered, ScoredContainersOf[files[f].page])
                   ELSE discovered
  /\ pc' = IF files[f].fail # "none" /\ ~Caught(files[f].fail)
           THEN "raised" ELSE "scan"
  /\ UNCHANGED << dir_exists, candidate, scored, written, log, runs,
                  consolidated_md >>
  /\ UNCHANGED << prog, files, all_classes, all_elements, selector_scores,
                  analysis, config >>

\* the rest of config.analyze_html_files, once os.walk is exhausted
AnalyzeReturn ==
  /\ prog = "config"
  /\ pc = "scan"
  /\ pending = {}
  /\ selector_scores' = CombineScores(all_content_selectors)
  /\ analysis' =
       LET top == top_selectors(selector_scores')
       IN  [ content_selectors |-> [ i \in 1..Len(top) |-> top[i].selector ],
             boilerplate       |-> all_boilerplate ]
  /\ pc' = "analyzed"
  /\ UNCHANGED << dir_exists, candidate, scored, written, log, runs,
                  consolidated_md >>
  /\ UNCHANGED << prog, files, pending, visited, discovered,
                  all_content_selectors, all_boilerplate, all_classes,
                  all_elements, config >>

\* the file generate_config opens for writing: <directory>/config.yaml unless
\* the caller names another file (taken to lie in an existing directory)
OutputFiles == {"default", "given"}

\* open(output_file, 'w') succeeds when the file's directory exists
Writable(output_file) == output_file = "given" \/ dir_exists

\* config.generate_config, after its call of analyze_html_files
GenerateConfig ==
  /\ prog = "config"
  /\ pc = "analyzed"
  /\ \E output_file \in OutputFiles :
       IF Writable(output_file)
       THEN /\ config' =
                 [ content_selector  |-> content_selector_of(analysis.content_selectors),
                   exclude_selectors |-> exclude_selectors_of(analysis.boilerplate) ]
            /\ pc' = "done"
       ELSE /\ config' = config
            /\ pc' = "write_failed"
  /\ UNCHANGED << dir_exists, candidate, scored, written, log, runs,
                  consolidated_md >>
  /\ UNCHANGED << prog, files, pending, visited, discovered,
                  all_content_selectors, all_boilerplate, all_classes,
                  all_elements, selector_scores, analysis >>

\* one iteration of the scan loop of the script's analyze_html_files
ScriptProcessFile(f) ==
  /\ prog = "script"
  /\ pc = "scan"
  /\ f \in pending
  /\ pending' = pending \ {f}
  /\ visited' = Append(visited, f)
  /\ IF files[f].fail = "none"
     THEN LET result == ClassesAndElementsOf[files[f].page]
          IN  /\ all_classes' = all_classes \cup result.classes
              /\ all_elements' = all_elements \cup result.elements
     ELSE UNCHANGED << all_classes, all_elements >>
  /\ pc' = IF files[f].fail # "none" /\ ~Caught(files[f].fail)
           THEN "raised" ELSE "scan"
  /\ UNCHANGED << dir_exists, candidate, scored, written, log, runs,
                  consolidated_md >>
  /\ UNCHANGED << prog, files, discovered, all_content_selectors,
                  all_boilerplate, selector_scores, analysis, config >>

\* the return of the script's analyze_html_files
ScriptAnalyzeReturn ==
  /\ prog = "script"
  /\ pc = "scan"
  /\ pending = {}
  /\ analysis' = [ classes  |-> SortedStrings(all_classes),
                   elements |-> SortedStrings(all_elements) ]
  /\ pc' = "analyzed"
  /\ UNCHANGED << dir_exists, candidate, scored, written, log, runs,
                  consolidated_md >>
  /\ UNCHANGED << prog, files, pending, visited, discovered,
                  all_content_selectors, all_boilerplate, all_classes,
                  all_elements, selector_scores, config >>

\* the script's generate_config, after its call of analyze_html_files
ScriptGenerateConfig ==
  /\ prog = "script"
  /\ pc = "analyzed"
  /\ config' = [ content_selector  |-> script_content_selector,
                 exclude_selectors |-> script_exclude_selectors_of(analysis) ]
  /\ pc' = "done"
  /\ UNCHANGED << dir_exists, candidate, scored, written, log, runs,
                  consolidated_md >>
  /\ UNCHANGED << prog, files, pending, visited, discovered,
                  all_content_selectors, all_boilerplate, all_classes,
                  all_elements, selector_scores, analysis >>

Next ==
  \/ \E f \in DOMAIN files : ProcessFile(f)
  \/ AnalyzeReturn
  \/ GenerateConfig
  \/ \E f \in DOMAIN files : ScriptProcessFile(f)
  \/ ScriptAnalyzeReturn
  \/ ScriptGenerateConfig

Spec == Init /\ [][Next]_vars

(***************************************************************************)
(* Properties                                                              *)
(***************************************************************************)
(***************************************************************************)
(* The scorer on its own: one element, drawn from a family of elements     *)
(* that varies the tag, the role attribute, the class list and the content *)
(* independently, goes through one iteration of the container loop.        *)
(***************************************************************************)
s_main_container == <<"m","a","i","n","-","c","o","n","t","a","i","n","e","r">>
s_article_body   == <<"a","r","t","i","c","l","e","-","b","o","d","y">>

\* the tags of the family: the four containers and one tag find_all leaves out
ScorerTags == ContainerTags \cup {s_nav}

\* the role attribute: absent, present and empty, "main", "navigation"
RoleAttributes ==
  { [has_role |-> FALSE, role |-> <<>>],
    [has_role |-> TRUE,  role |-> <<>>],
    [has_role |-> TRUE,  role |-> s_main],
    [has_role |-> TRUE,  role |-> s_navigation] }

ClassVocabulary ==
  { s_content, s_main, s_article, s_main_container, s_article_body,
    s_Main_Content, s_hero }

\* the class attribute: no class, one class, two classes, and two lists of
\* three classes
ClassLists ==
  {<<>>}
    \cup { <<c>> : c \in ClassVocabulary }
    \cup { <<c, d>> : c, d \in ClassVocabulary }
    \cup { << s_content, s_main_container, s_article_body >>,
           << s_hero, s_article, s_hero >> }

\* stripped text length and the numbers of p, h1-h6, a, img and ul/ol
ContentShape(text_length, p, h, a, img, l) ==
  [ text_length |-> text_length,
    paragraphs |-> p, headings |-> h, links |-> a, images |-> img, lists |-> l ]

ContentShapes ==
  { ContentShape(0,    0, 0, 0, 0, 0),
    ContentShape(49,   1, 0, 0, 0, 0),
    ContentShape(50,   0, 0, 0, 0, 0),
    ContentShape(50,   1, 0, 0, 0, 0),
    ContentShape(300,  1, 1, 1, 1, 0),
    ContentShape(1200, 1, 1, 0, 0, 0),
    ContentShape(1200, 2, 1, 1, 0, 0),
    ContentShape(4999, 1, 1, 1, 1, 1),
    ContentShape(5000, 0, 0, 0, 0, 0),
    ContentShape(5000, 2, 1, 1, 1, 1),
    ContentShape(6000, 1, 0, 0, 0, 0) }

ScorerElements ==
  { [ name |-> t, has_role |-> r.has_role, role |-> r.role, classes |-> c,
      text_length |-> s.text_length, paragraphs |-> s.paragraphs,
      headings |-> s.headings, links |-> s.links, images |-> s.images,
      lists |-> s.lists ] :
      t \in ScorerTags, r \in RoleAttributes, c \in ClassLists,
      s \in ContentShapes }

ScorerInit ==
  /\ candidate \in ScorerElements
  /\ scored = NotScored
  /\ written = <<>>
  /\ log = <<>>
  /\ runs = <<>>
  /\ consolidated_md = FALSE
  /\ pc = "scorer"
  /\ prog = "config"
  /\ dir_exists = TRUE
  /\ files = <<>>
  /\ pending = {}
  /\ visited = <<>>
  /\ discovered = <<>>
  /\ all_content_selectors = <<>>
  /\ all_boilerplate = EmptyBoilerplate
  /\ all_classes = {}
  /\ all_elements = {}
  /\ selector_scores = <<>>
  /\ analysis = [ content_selectors |-> <<>>, boilerplate |-> EmptyBoilerplate ]
  /\ config = EmptyConfig

\* one iteration of the container loop of extract_content_selectors
ScoreElement ==
  /\ pc = "scorer"
  /\ scored' = IF candidate.name \in ContainerTags /\ ~SkipElement(candidate)
               THEN [ produced |-> TRUE,
                      selector |-> ElementSelector(candidate),
                      score    |-> ElementScore(candidate) ]
               ELSE NotScored
  /\ pc' = "scored"
  /\ UNCHANGED << written, log, runs, consolidated_md >>
  /\ UNCHANGED << candidate, dir_exists, prog, files, pending, visited,
                  discovered, all_content_selectors, all_boilerplate,
                  all_classes, all_elements, selector_scores, analysis,
                  config >>

ScorerNext == ScoreElement

ScorerSpec == ScorerInit /\ [][ScorerNext]_vars

(***************************************************************************)
(* A fixed corpus: four pages with a <main role="main"> of varied content  *)
(* and one stub page, scanned by html2md.config in any visiting order.     *)
(***************************************************************************)
CorpusFiles ==
  << [ page |-> "home",    fail |-> "none" ],
     [ page |-> "about",   fail |-> "none" ],
     [ page |-> "contact", fail |-> "none" ],
     [ page |-> "news",    fail |-> "none" ],
     [ page |-> "stub",    fail |-> "none" ] >>

CorpusInit ==
  /\ prog = "config"
  /\ dir_exists = TRUE
  /\ files = CorpusFiles
  /\ candidate = <<>>
  /\ scored = NotScored
  /\ written = <<>>
  /\ log = <<>>
  /\ runs = <<>>
  /\ consolidated_md = FALSE
  /\ pending = DOMAIN files
  /\ visited = <<>>
  /\ discovered = <<>>
  /\ all_content_selectors = <<>>
  /\ all_boilerplate = EmptyBoilerplate
  /\ all_classes = {}
  /\ all_elements = {}
  /\ selector_scores = <<>>
  /\ analysis = [ content_selectors |-> <<>>, boilerplate |-> EmptyBoilerplate ]
  /\ config = EmptyConfig
  /\ pc = "scan"

CorpusNext ==
  \/ \E f \in DOMAIN files : ProcessFile(f)
  \/ AnalyzeReturn
  \/ GenerateConfig

CorpusSpec == CorpusInit /\ [][CorpusNext]_vars

(***************************************************************************)
(* Conversion: the selectors of a configuration as the converter reads     *)
(* them.  str.split(','), str.strip() and the CSS selector forms that the  *)
(* synthesis emits and the tests use: an optional tag name followed by     *)
(* .class, [attr="value"] and [attr*="value"] parts.                       *)
(***************************************************************************)
\* s.split(','): the pieces between the commas, at least one piece
RECURSIVE SplitOnComma(_)
SplitOnComma(s) ==
  IF \E i \in 1..Len(s) : s[i] = ","
  THEN LET i == CHOOSE k \in 1..Len(s) :
                  s[k] = "," /\ \A j \in 1..(k - 1) : s[j] # ","
       IN  << SubSeq(s, 1, i - 1) >> \o SplitOnComma(SubSeq(s, i + 1, Len(s)))
  ELSE << s >>

\* s.strip(), for the one white-space character of the alphabet
RECURSIVE Strip(_)
Strip(s) ==
  IF s # <<>> /\ Head(s) = " " THEN Strip(Tail(s))
  ELSE IF s # <<>> /\ s[Len(s)] = " " THEN Strip(SubSeq(s, 1, Len(s) - 1))
  ELSE s

\* the characters of a CSS identifier
IdentChars == Range(LowerCase) \cup Range(UpperCase) \cup {"-", "_"}

\* s[i], or the empty string beyond the end of s
At(s, i) == IF i \in 1..Len(s) THEN s[i] ELSE ""

\* the first position from i on that holds no identifier character
IdentEnd(s, i) ==
  CHOOSE j \in i..(Len(s) + 1) :
    /\ At(s, j) \notin IdentChars
    /\ \A k \in i..(j - 1) : s[k] \in IdentChars

\* the position of the first double quote from i on, 0 when there is none
QuoteAt(s, i) ==
  IF \E j \in i..Len(s) : s[j] = "\""
  THEN CHOOSE j \in i..Len(s) :
         s[j] = "\"" /\ \A k \in i..(j - 1) : s[k] # "\""
  ELSE 0

\* what soupsieve rejects with SelectorSyntaxError
InvalidSelector == [ valid |-> FALSE, name |-> <<>>, classes |-> {}, attrs |-> {} ]

\* the parts behind the tag name, read from position i on
RECURSIVE ParseParts(_, _, _)
ParseParts(s, i, acc) ==
  IF i > Len(s) THEN acc
  ELSE IF s[i] = "."
  THEN LET j == IdentEnd(s, i + 1)
       IN  IF j = i + 1 THEN InvalidSelector
           ELSE ParseParts(s, j,
                  [acc EXCEPT !.classes = @ \cup {SubSeq(s, i + 1, j - 1)}])
  ELSE IF s[i] = "["
  THEN LET j  == IdentEnd(s, i + 1)
           op == IF At(s, j) = "=" THEN "="
                 ELSE IF At(s, j) = "*" /\ At(s, j + 1) = "=" THEN "*="
                 ELSE ""
           k  == IF op = "=" THEN j + 1 ELSE j + 2
           q  == QuoteAt(s, k + 1)
       IN  IF j = i + 1 \/ op = "" \/ At(s, k) # "\"" \/ q = 0
              \/ At(s, q + 1) # "]"
           THEN InvalidSelector
           ELSE ParseParts(s, q + 2,
                  [acc EXCEPT !.attrs = @ \cup
                     { [ attr  |-> SubSeq(s, i + 1, j - 1), op |-> op,
                         value |-> SubSeq(s, k + 1, q - 1) ] }])
  ELSE InvalidSelector

\* variant of ParseSelector: the empty selector matches every element
ParseSelector_EmptyIsUniversal(s) ==
  IF s = <<>> THEN [ valid |-> TRUE, name |-> <<>>, classes |-> {}, attrs |-> {} ]
  ELSE LET j == IdentEnd(s, 1)
       IN  ParseParts(s, j, [ valid |-> TRUE, name |-> SubSeq(s, 1, j - 1),
                              classes |-> {}, attrs |-> {} ])

\* the compiled form of one selector; the empty selector is not valid
ParseSelector(s) ==
  IF s = <<>> THEN InvalidSelector
  ELSE LET j == IdentEnd(s, 1)
       IN  ParseParts(s, j, [ valid |-> TRUE, name |-> SubSeq(s, 1, j - 1),
                              classes |-> {}, attrs |-> {} ])

(***************************************************************************)
(* Conversion: a parsed page is the sequence of its elements in document   *)
(* order; an element has a tag name, role and class attributes, the        *)
(* position of its parent (0 for the top of the page) and its own text,    *)
(* one line of the markdown that html2text makes of it ("" for none).      *)
(***************************************************************************)
Node(name, role, classes, parent, text) ==
  [ name |-> name, role |-> role, classes |-> classes,
    parent |-> parent, text |-> text ]

s_main_content == <<"m","a","i","n","-","c","o","n","t","e","n","t">>
\* the page of the tests: a div.main-content with a heading, a paragraph and a
\* div.navigation
DomTest ==
  << Node(s_div, <<>>, <<s_main_content>>, 0, ""),
     Node(<<"h","1">>,  <<>>, <<>>,               1, "Test Page"),
     Node(<<"p">>,   <<>>, <<>>,               1, "This is a test paragraph."),
     Node(s_div, <<>>, <<s_navigation>>,   1, "Should be excluded") >>

\* a div.content ahead of <main role="main">; inside main a nav with a nested
\* paragraph and a paragraph of class btn
DomSite ==
  << Node(s_nav,    <<>>,   <<s_navbar>>,  0, "Menu"),
     Node(s_div,    <<>>,   <<s_content>>, 0, ""),
     Node(<<"p">>,      <<>>,   <<>>,          2, "Teaser"),
     Node(s_main,   s_main, <<>>,          0, ""),
     Node(<<"h","1">>,     <<>>,   <<>>,          4, "Welcome"),
     Node(s_nav,    <<>>,   <<>>,          4, "Breadcrumbs"),
     Node(<<"p">>,      <<>>,   <<>>,          6, "Home"),
     Node(<<"p">>,      <<>>,   <<s_btn>>,     4, "Click"),
     Node(<<"p">>,      <<>>,   <<>>,          4, "Body text"),
     Node(s_footer, <<>>,   <<s_footer>>,  0, "Imprint") >>

\* a paragraph that reads "Our" between a heading and a paragraph
DomOur ==
  << Node(s_div, <<>>, <<s_main_content>>, 0, ""),
     Node(<<"h","1">>,  <<>>, <<>>,               1, "Title"),
     Node(<<"p">>,   <<>>, <<>>,               1, "Our"),
     Node(<<"p">>,   <<>>, <<>>,               1, "Team") >>

\* the page of test_convert_file_no_content
DomBare ==
  << Node(s_div, <<>>, <<>>, 0, "No main content here") >>

\* containers without any text
DomEmpty ==
  << Node(s_div,  <<>>,   <<s_main_content>>, 0, ""),
     Node(s_main, s_main, <<>>,               0, "") >>

\* a main element whose role attribute holds a comma
DomLegacy ==
  << Node(s_main, <<"m","a","i","n",",","c","o","n","t","e","n","t">>, <<>>, 0, ""),
     Node(<<"p">>,    <<>>,                 <<>>, 1, "Old page") >>

Dom ==
  [ test |-> DomTest, site |-> DomSite, our |-> DomOur, bare |-> DomBare,
    empty |-> DomEmpty, legacy |-> DomLegacy ]

\* the value of an attribute of an element, <<>> when the element has none
AttributeOf(node, attr) ==
  IF attr = <<"r","o","l","e">> THEN node.role
  ELSE IF attr = <<"c","l","a","s","s">> THEN Join(<<" ">>, node.classes)
  ELSE <<>>

\* one [attr="value"] or [attr*="value"] part against an element
AttrMatches(part, node) ==
  LET value == AttributeOf(node, part.attr)
  IN  /\ value # <<>>
      /\ IF part.op = "=" THEN value = part.value
         ELSE part.value # <<>> /\ Contains(value, part.value)

\* a compiled selector against an element
SelectorMatches(sel, node) ==
  /\ sel.name = <<>> \/ sel.name = node.name
  /\ sel.classes \subseteq Range(node.classes)
  /\ \A part \in sel.attrs : AttrMatches(part, node)

\* i is j or an element below j
RECURSIVE Within(_, _, _)
Within(page, i, j) ==
  IF i = j THEN TRUE
  ELSE IF i = 0 THEN FALSE
  ELSE Within(page, page[i].parent, j)

\* soup.select_one(selector): the position of the first matching element in
\* document order, 0 for None
select_one(page, sel) ==
  IF \E i \in 1..Len(page) : SelectorMatches(sel, page[i])
  THEN CHOOSE i \in 1..Len(page) :
         /\ SelectorMatches(sel, page[i])
         /\ \A j \in 1..(i - 1) : ~SelectorMatches(sel, page[j])
  ELSE 0

\* main_content.select(selector): the matching elements below main_content
select(page, main_content, sel) ==
  { i \in 1..Len(page) :
      /\ sel.valid
      /\ i # main_content
      /\ Within(page, i, main_content)
      /\ SelectorMatches(sel, page[i]) }

\* the elements that the decompose() calls for the exclude selectors remove
Decomposed(page, main_content, exclude) ==
  { i \in 1..Len(page) :
      \E k \in 1..Len(exclude) :
        \E j \in select(page, main_content, ParseSelector(exclude[k])) :
          Within(page, i, j) }

\* h2t.handle(str(main_content)): the lines of text of what is left of
\* main_content, in document order
RECURSIVE MarkdownLines(_, _, _, _)
MarkdownLines(page, main_content, removed, i) ==
  IF i > Len(page) THEN <<>>
  ELSE (IF /\ Within(page, i, main_content)
           /\ i \notin removed
           /\ page[i].text # ""
        THEN << page[i].text >> ELSE <<>>)
       \o MarkdownLines(page, main_content, removed, i + 1)

\* the result of a conversion: the markdown, as its lines, or the exception
Markdown(lines) == [ kind |-> "markdown", lines |-> lines ]

Raised(exception) == [ kind |-> exception, lines |-> <<>> ]

\* clean_markdown: re.sub(r'\nOur\s*\n', '\n', markdown) drops a line that
\* reads "Our" when a line break precedes it that the match before it has not
\* consumed; the other substitutions change no line of text
RECURSIVE DropOurLines(_, _)
DropOurLines(lines, after_break) ==
  IF lines = <<>> THEN <<>>
  ELSE IF Head(lines) = "Our" /\ after_break
       THEN DropOurLines(Tail(lines), FALSE)
       ELSE << Head(lines) >> \o DropOurLines(Tail(lines), TRUE)

clean_markdown(lines) == DropOurLines(lines, FALSE)

\* the loop over the selectors of content_selector, from the k-th on: the
\* position of main_content, 0 for None, -1 when select_one raises
RECURSIVE FindMainContent(_, _, _)
FindMainContent(page, selectors, k) ==
  IF k > Len(selectors) THEN 0
  ELSE LET sel == ParseSelector(Strip(selectors[k]))
       IN  IF ~sel.valid THEN 0 - 1
           ELSE IF select_one(page, sel) # 0 THEN select_one(page, sel)
           ELSE FindMainContent(page, selectors, k + 1)

\* one of the exclude selectors is rejected by main_content.select
ExcludeRaises(exclude) ==
  \E k \in 1..Len(exclude) : ~ParseSelector(exclude[k]).valid

\* convert_html_to_md of html2md/src/html2md/core.py (cleaned) and of
\* convert_site.py (not cleaned)
convert_html_to_md(page, cfg, cleaned) ==
  LET selectors    == SplitOnComma(cfg.content_selector)
      main_content == FindMainContent(page, selectors, 1)
  IN  IF main_content < 0 THEN Raised("SelectorSyntaxError")
      ELSE IF main_content = 0 THEN Markdown(<<>>)
      ELSE IF ExcludeRaises(cfg.exclude_selectors)
      THEN Raised("SelectorSyntaxError")
      ELSE LET lines == MarkdownLines(page, main_content,
                          Decomposed(page, main_content, cfg.exclude_selectors), 1)
           IN  Markdown(IF cleaned THEN clean_markdown(lines) ELSE lines)

\* variant of convert_file: a page without a match gives an empty result
convert_file_EmptyOnNoMatch(file, cfg) ==
  LET page == Dom[file.page]
      sel  == ParseSelector(Strip(cfg.content_selector))
  IN  IF file.fail = "read" THEN Raised("ConversionError")
      ELSE IF ~sel.valid THEN Raised("ConversionError")
      ELSE IF select_one(page, sel) = 0 THEN Markdown(<<>>)
      ELSE IF ExcludeRaises(cfg.exclude_selectors) THEN Raised("ConversionError")
      ELSE Markdown(MarkdownLines(page, select_one(page, sel),
                      Decomposed(page, select_one(page, sel),
                                 cfg.exclude_selectors), 1))

\* HTMLConverter.convert_file: every exception leaves as ConversionError
convert_file(file, cfg) ==
  LET page == Dom[file.page]
      sel  == ParseSelector(Strip(cfg.content_selector))
  IN  IF file.fail = "read" THEN Raised("ConversionError")
      ELSE IF ~sel.valid THEN Raised("ConversionError")
      ELSE IF select_one(page, sel) = 0 THEN Raised("ConversionError")
      ELSE IF ExcludeRaises(cfg.exclude_selectors) THEN Raised("ConversionError")
      ELSE Markdown(MarkdownLines(page, select_one(page, sel),
                      Decomposed(page, select_one(page, sel),
                                 cfg.exclude_selectors), 1))

\* ---------------------------------------------------------------------------
\* the conversion stage: process_directory of each converter, followed by
\* consolidate_markdown
\* ---------------------------------------------------------------------------

\* process and convert are the commands of cli/main.py, convert_site is the
\* script convert_site.py, HTMLConverter the class of html2md/html2md/core.py
ConvertPrograms == {"process", "convert", "convert_site", "HTMLConverter"}

\* the programs whose process_directory is the function of
\* html2md/src/html2md/core.py or its copy in convert_site.py
Functional == {"process", "convert", "convert_site"}

\* 'max_depth': 3, written into every generated configuration
generated_max_depth == 3

\* consolidate_markdown is called at most this many times on one directory
MaxRuns == 2

\* what the scorer of generate_config sees of each page of Dom: text lengths
\* and counts of the container elements
ScoringView ==
  [ test |-> "stub", site |-> "home", our |-> "stub", bare |-> "stub",
    empty |-> "stub", legacy |-> "legacy" ]

\* the .html files a directory may hold: every page at the top of the
\* directory, an unreadable file, and two files four directories down
ConvFiles ==
  { [ page |-> p, fail |-> "none", depth |-> 1 ] : p \in DOMAIN Dom }
    \cup { [ page |-> "test", fail |-> "read", depth |-> 1 ],
           [ page |-> "test", fail |-> "none", depth |-> 4 ],
           [ page |-> "site", fail |-> "none", depth |-> 4 ] }

\* the file as analyze_html_files meets it
Scanned(file) == [ page |-> ScoringView[file.page], fail |-> file.fail ]

\* all_content_selectors and all_boilerplate of analyze_html_files after the
\* first k files of the directory
RECURSIVE ScannedContent(_, _)
ScannedContent(dir, k) ==
  IF k = 0 THEN <<>>
  ELSE ContentAfter(ScannedContent(dir, k - 1), Scanned(dir[k]))

RECURSIVE ScannedBoilerplate(_, _)
ScannedBoilerplate(dir, k) ==
  IF k = 0 THEN EmptyBoilerplate
  ELSE BoilerplateAfter(ScannedBoilerplate(dir, k - 1), Scanned(dir[k]))

\* the return value of analyze_html_files on the directory
AnalysisOf(dir) ==
  LET top == top_selectors(CombineScores(ScannedContent(dir, Len(dir))))
  IN  [ content_selectors |-> [ i \in 1..Len(top) |-> top[i].selector ],
        boilerplate       |-> ScannedBoilerplate(dir, Len(dir)) ]

\* the configuration generate_config writes and the process command loads
GeneratedConfig(an) ==
  [ content_selector    |-> content_selector_of(an.content_selectors),
    exclude_selectors   |-> exclude_selectors_of(an.boilerplate),
    max_depth           |-> << generated_max_depth >>,
    consolidated_output |-> "inside" ]

\* the configuration of the tests
ConfigTest(consolidated_output) ==
  [ content_selector    |-> s_div \o s_dot \o s_main_content,
    exclude_selectors   |-> << s_div \o s_dot \o s_navigation >>,
    max_depth           |-> <<>>,
    consolidated_output |-> consolidated_output ]

\* a hand-written configuration with two ranked selectors
ConfigSite ==
  [ content_selector    |-> s_main \o s_role_open \o s_main \o s_attr_close
                              \o s_comma_space
                              \o s_div \o s_class_open \o s_content \o s_attr_close,
    exclude_selectors   |-> << s_footer, s_nav, s_dot \o s_btn >>,
    max_depth           |-> << generated_max_depth >>,
    consolidated_output |-> "inside" ]

\* a configuration whose content_selector is no selector
ConfigEmpty ==
  [ content_selector    |-> <<>>,
    exclude_selectors   |-> <<>>,
    max_depth           |-> <<>>,
    consolidated_output |-> "inside" ]

\* the configurations each program may be started with
ConfigsOf(program, dir) ==
  CASE program = "process"       -> { GeneratedConfig(AnalysisOf(dir)) }
    [] program = "convert"       -> { ConfigTest("inside"), ConfigTest("outside"),
                                      ConfigSite }
    [] program = "convert_site"  -> { ConfigTest("inside"), ConfigSite }
    [] program = "HTMLConverter" -> { ConfigTest("inside"), ConfigEmpty }

ConvertInit ==
  /\ prog \in ConvertPrograms
  /\ dir_exists = TRUE
  /\ \E n \in 0..MaxFiles : files \in [1..n -> ConvFiles]
  /\ config \in ConfigsOf(prog, files)
  /\ analysis = IF prog = "process" THEN AnalysisOf(files)
                ELSE [ content_selectors |-> <<>>, boilerplate |-> EmptyBoilerplate ]
  /\ pending = DOMAIN files
  /\ visited = <<>>
  /\ written = [ f \in DOMAIN files |-> [ exists |-> FALSE, lines |-> <<>> ] ]
  /\ log = [ f \in DOMAIN files |-> [ outcome |-> "", raised |-> "" ] ]
  /\ runs = <<>>
  /\ consolidated_md = FALSE
  /\ discovered = <<>>
  /\ all_content_selectors = <<>>
  /\ all_boilerplate = EmptyBoilerplate
  /\ all_classes = {}
  /\ all_elements = {}
  /\ selector_scores = <<>>
  /\ candidate = CHOOSE e \in ScorerElements : TRUE
  /\ scored = NotScored
  /\ pc = "convert"

\* len(rel_path.parts) > max_depth, when max_depth is not None
TooDeep(file, cfg) ==
  cfg.max_depth # <<>> /\ file.depth > cfg.max_depth[1]

\* one iteration of the loop of the functional process_directory
ConvertFile(f) ==
  /\ prog \in Functional
  /\ pc = "convert"
  /\ f \in pending
  /\ pending' = pending \ {f}
  /\ visited' = Append(visited, f)
  /\ LET file   == files[f]
         result == IF file.fail = "read" THEN Raised("OSError")
                   ELSE convert_html_to_md(Dom[file.page], config,
                                           prog # "convert_site")
     IN  IF TooDeep(file, config)
         THEN /\ log' = [ log EXCEPT ![f] = [ outcome |-> "skipped", raised |-> "" ] ]
              /\ written' = written
         ELSE IF result.kind # "markdown"
         THEN /\ log' = [ log EXCEPT ![f] = [ outcome |-> "error",
                                              raised  |-> result.kind ] ]
              /\ written' = written
         ELSE IF result.lines # <<>>
         THEN /\ log' = [ log EXCEPT ![f] = [ outcome |-> "converted", raised |-> "" ] ]
              /\ written' = [ written EXCEPT ![f] = [ exists |-> TRUE,
                                                      lines  |-> result.lines ] ]
         ELSE /\ log' = [ log EXCEPT ![f] = [ outcome |-> "no_content", raised |-> "" ] ]
              /\ written' = written
  /\ UNCHANGED << prog, files, config, analysis, pc, runs, consolidated_md >>
  /\ UNCHANGED << dir_exists, candidate, scored, discovered,
                  all_content_selectors, all_boilerplate, all_classes,
                  all_elements, selector_scores >>

\* one iteration of the loop of HTMLConverter.process_directory
ConverterFile(f) ==
  /\ prog = "HTMLConverter"
  /\ pc = "convert"
  /\ f \in pending
  /\ pending' = pending \ {f}
  /\ visited' = Append(visited, f)
  /\ LET result == convert_file(files[f], config)
     IN  IF result.kind # "markdown"
         THEN /\ log' = [ log EXCEPT ![f] = [ outcome |-> "error",
                                              raised  |-> result.kind ] ]
              /\ written' = written
         ELSE /\ log' = [ log EXCEPT ![f] = [ outcome |-> "converted", raised |-> "" ] ]
              /\ written' = [ written EXCEPT ![f] = [ exists |-> TRUE,
                                                      lines  |-> result.lines ] ]
  /\ UNCHANGED << prog, files, config, analysis, pc, runs, consolidated_md >>
  /\ UNCHANGED << dir_exists, candidate, scored, discovered,
                  all_content_selectors, all_boilerplate, all_classes,
                  all_elements, selector_scores >>

\* the loop over the .html files is exhausted: process_directory returns
ConvertReturn ==
  /\ prog \in ConvertPrograms
  /\ pc = "convert"
  /\ pending = {}
  /\ pc' = "converted"
  /\ UNCHANGED << prog, files, pending, visited, config, analysis, written,
                  log, runs, consolidated_md >>
  /\ UNCHANGED << dir_exists, candidate, scored, discovered,
                  all_content_selectors, all_boilerplate, all_classes,
                  all_elements, selector_scores >>

\* sorted(output_dir.rglob('*.md')): the converted files in the order of
\* their paths, 0 standing for consolidated.md
RECURSIVE MarkdownFiles(_)
MarkdownFiles(k) ==
  IF k = 0 THEN IF consolidated_md THEN << 0 >> ELSE <<>>
  ELSE MarkdownFiles(k - 1) \o (IF written[k].exists THEN << k >> ELSE <<>>)

\* one call of consolidate_markdown on the output directory
Consolidate ==
  /\ prog \in {"process", "convert"}
  /\ pc = "converted"
  /\ Len(runs) < MaxRuns
  /\ LET markdown_files == MarkdownFiles(Len(files))
     IN  runs' = Append(runs, [ sections    |-> markdown_files,
                                total_files |-> Len(markdown_files) ])
  /\ consolidated_md' = (consolidated_md \/ config.consolidated_output = "inside")
  /\ UNCHANGED << prog, files, pending, visited, config, analysis, written,
                  log, pc >>
  /\ UNCHANGED << dir_exists, candidate, scored, discovered,
                  all_content_selectors, all_boilerplate, all_classes,
                  all_elements, selector_scores >>

ConvertNext ==
  \/ \E f \in DOMAIN files : ConvertFile(f)
  \/ \E f \in DOMAIN files : ConverterFile(f)
  \/ ConvertReturn
  \/ Consolidate

ConvertSpec == ConvertInit /\ [][ConvertNext]_vars

\* analyze_html_files has returned
Analyzed == pc \in {"analyzed", "done"}

\* no file of the directory fails
NoFailure == \A f \in DOMAIN files : files[f].fail = "none"

\* position of the first occurrence of x in s (Len(s) + 1 when absent)
FirstIndex(s, x) ==
  IF \E i \in 1..Len(s) : s[i] = x
  THEN CHOOSE i \in 1..Len(s) : s[i] = x /\ \A j \in 1..(i - 1) : s[j] # x
  ELSE Len(s) + 1

\* the selectors of a list of (selector, score) pairs
SelectorsOf(pairs) == [ i \in 1..Len(pairs) |-> pairs[i].selector ]

\* the aggregated score of a selector in a selector -> score list
ScoreIn(scores, selector) ==
  scores[CHOOSE i \in 1..Len(scores) : scores[i].selector = selector].score

\* a container element that passes the gate, stated on the text length alone
Qualifies(element) ==
  element.name \in ContainerTags /\ element.text_length >= 50

\* the (selector, score) pairs of the qualifying elements of a page
QualifyingPairs(page) ==
  { [ selector |-> ElementSelector(page[i]), score |-> ElementScore(page[i]) ] :
      i \in { j \in 1..Len(page) : Qualifies(page[j]) } }

QualifyingPairsOf ==
  [ home |-> QualifyingPairs(PageHome), blog |-> QualifyingPairs(PageBlog),
    docs |-> QualifyingPairs(PageDocs), long |-> QualifyingPairs(PageLong),
    stub |-> QualifyingPairs(PageStub),
    about |-> QualifyingPairs(PageAbout),
    contact |-> QualifyingPairs(PageContact),
    news |-> QualifyingPairs(PageNews),
    legacy |-> QualifyingPairs(PageLegacy) ]

\* C1: a selector candidate is produced only for container elements whose
\* stripped text has at least 50 characters: a page yields exactly one scored
\* pair per such element, and every accumulated candidate is the selector and
\* score of such an element of a visited file.
C1_ThresholdGate ==
  /\ \A f \in DOMAIN files :
       /\ Len(ScoredContainersOf[files[f].page])
            = Cardinality({ i \in 1..Len(Html(files[f])) :
                              Qualifies(Html(files[f])[i]) })
       /\ Range(ContentSelectorsOf[files[f].page])
            \subseteq QualifyingPairsOf[files[f].page]
  /\ \A k \in 1..Len(all_content_selectors) :
       \E f \in Range(visited) :
         all_content_selectors[k] \in QualifyingPairsOf[files[f].page]

\* a visited page with a 49-character container and an empty container has
\* contributed candidates
C1_Witness ==
  /\ all_content_selectors # <<>>
  /\ \E f \in Range(visited) :
       /\ files[f].fail = "none"
       /\ \E i, j \in 1..Len(Html(files[f])) :
            /\ Html(files[f])[i].name \in ContainerTags
            /\ Html(files[f])[i].text_length = 49
            /\ Html(files[f])[j].name \in ContainerTags
            /\ Html(files[f])[j].text_length = 0

\* the candidates of the successfully processed files
SuccessfulCandidates ==
  UNION { Range(ScoredContainersOf[files[f].page]) :
            f \in { g \in DOMAIN files : files[g].fail = "none" } }

\* C2: once the scan is over, the keys of selector_scores are the selectors of
\* the candidates of the successfully processed pages, each once, and the score
\* of a selector is the maximum score of those candidates.
C2_MaxOverSuccessfulPages ==
  (prog = "config" /\ Analyzed) =>
    /\ Range(SelectorsOf(selector_scores))
         = { c.selector : c \in SuccessfulCandidates }
    /\ \A i, j \in 1..Len(selector_scores) :
         selector_scores[i].selector = selector_scores[j].selector => i = j
    /\ \A i \in 1..Len(selector_scores) :
         /\ \E c \in SuccessfulCandidates :
              /\ c.selector = selector_scores[i].selector
              /\ c.score = selector_scores[i].score
         /\ \A c \in SuccessfulCandidates :
              c.selector = selector_scores[i].selector
                => c.score <= selector_scores[i].score

\* C3: a selector is among the content selectors returned by the analysis
\* exactly when its aggregated score is strictly greater than 5.0, and the
\* emitted content_selector is a join of selectors that all score above 5.0.
C3_StrictThreshold ==
  (prog = "config" /\ Analyzed) =>
    /\ \A i \in 1..Len(selector_scores) :
         (selector_scores[i].selector \in Range(analysis.content_selectors))
           <=> (selector_scores[i].score > 5 * ScoreDen)
    /\ Range(analysis.content_selectors) \subseteq Range(SelectorsOf(selector_scores))
    /\ pc = "done" =>
         \E k \in 0..Len(analysis.content_selectors) :
           config.content_selector
             = Join(s_comma_space, SubSeq(analysis.content_selectors, 1, k))

\* configuration emitted with one selector at exactly 5.0 and one above
C3_Witness ==
  /\ prog = "config"
  /\ pc = "done"
  /\ NoFailure
  /\ config.content_selector # <<>>
  /\ \E i, j \in 1..Len(selector_scores) :
       /\ selector_scores[i].score = 5 * ScoreDen
       /\ selector_scores[j].score > 5 * ScoreDen

\* the returned selectors are in descending order of aggregated score
RankedByScore ==
  \A i, j \in 1..Len(analysis.content_selectors) :
    i < j => ScoreIn(selector_scores, analysis.content_selectors[i])
               >= ScoreIn(selector_scores, analysis.content_selectors[j])

\* selectors of equal aggregated score follow the order of the list  order
TiesFollow(order) ==
  \A i, j \in 1..Len(analysis.content_selectors) :
    (i < j /\ ScoreIn(selector_scores, analysis.content_selectors[i])
                = ScoreIn(selector_scores, analysis.content_selectors[j]))
      => FirstIndex(order, analysis.content_selectors[i])
           < FirstIndex(order, analysis.content_selectors[j])

\* C4, as claimed: descending by aggregated score, equal scores in the order in
\* which the selectors' elements were first met during the scan (stated for
\* the scans in which no file fails).
C4_TiesByDiscovery ==
  (prog = "config" /\ Analyzed /\ NoFailure)
    => (RankedByScore /\ TiesFollow(discovered))

\* C4, amended: descending by aggregated score, equal scores in the order of
\* first appearance in all_content_selectors (files in visiting order, the
\* candidates of one file by descending score).
C4_TiesByAccumulation ==
  (prog = "config" /\ Analyzed) =>
    (RankedByScore /\ TiesFollow(SelectorsOf(all_content_selectors)))

\* two surviving selectors tie and a third scores differently
C4_Witness ==
  /\ prog = "config"
  /\ Analyzed
  /\ NoFailure
  /\ Len(visited) = 2
  /\ \E i, j, k \in 1..Len(analysis.content_selectors) :
       /\ i < j
       /\ ScoreIn(selector_scores, analysis.content_selectors[i])
            = ScoreIn(selector_scores, analysis.content_selectors[j])
       /\ ScoreIn(selector_scores, analysis.content_selectors[k])
            # ScoreIn(selector_scores, analysis.content_selectors[i])

\* C5: the emitted content_selector is the ", "-join of the first min(3, n) of
\* the n returned selectors, and it is empty exactly when n = 0.
C5_TopThreeJoined ==
  (prog = "config" /\ pc = "done") =>
    LET n == Len(analysis.content_selectors)
        k == IF n < 3 THEN n ELSE 3
    IN  /\ config.content_selector
             = Join(<<",", " ">>, SubSeq(analysis.content_selectors, 1, k))
        /\ (config.content_selector = <<>>) <=> (n = 0)

\* a configuration emitted from more than three surviving selectors
C5_Witness ==
  /\ prog = "config"
  /\ pc = "done"
  /\ NoFailure
  /\ Len(analysis.content_selectors) > 3

\* the boilerplate tag names and class names found by the program that ran
FoundTags == IF prog = "config" THEN all_boilerplate.elements ELSE all_elements

FoundClasses == IF prog = "config" THEN all_boilerplate.classes ELSE all_classes

\* s[from..to] is in strictly ascending lexicographic order
Ascending(s, from, to) ==
  \A i \in from..(to - 1) : StrLess(s[i], s[i + 1])

\* C6, as claimed: exclude_selectors is the union of the tag names and the
\* .class names found, without duplicates, ascending as a whole.
C6_WholeListSorted ==
  pc = "done" =>
    /\ Range(config.exclude_selectors)
         = FoundTags \cup { <<".">> \o cls : cls \in FoundClasses }
    /\ Ascending(config.exclude_selectors, 1, Len(config.exclude_selectors))

\* C6, amended: exclude_selectors is the ascending list of the tag names found
\* followed by the ascending list of the .class names found, each entry once.
C6_TwoSortedBlocks ==
  pc = "done" =>
    LET ex == config.exclude_selectors
        nt == Cardinality(FoundTags)
    IN  /\ Len(ex) = nt + Cardinality(FoundClasses)
        /\ { ex[i] : i \in 1..nt } = FoundTags
        /\ { ex[i] : i \in (nt + 1)..Len(ex) }
             = { <<".">> \o cls : cls \in FoundClasses }
        /\ Ascending(ex, 1, nt)
        /\ Ascending(ex, nt + 1, Len(ex))
        /\ \A i, j \in 1..Len(ex) : ex[i] = ex[j] => i = j

\* a configuration emitted with at least two tags and two classes found
C6_Witness ==
  /\ pc = "done"
  /\ Cardinality(FoundTags) >= 2
  /\ Cardinality(FoundClasses) >= 2

\* what a file whose processing does not fail adds is in the aggregates
Contributed(f) ==
  IF prog = "config"
  THEN /\ Range(ContentSelectorsOf[files[f].page])
            \subseteq Range(all_content_selectors)
       /\ BoilerplateOf[files[f].page].elements
            \subseteq all_boilerplate.elements
       /\ BoilerplateOf[files[f].page].classes
            \subseteq all_boilerplate.classes
  ELSE /\ ClassesAndElementsOf[files[f].page].elements \subseteq all_elements
       /\ ClassesAndElementsOf[files[f].page].classes \subseteq all_classes

\* C7: a failure of one file never reaches the caller, no file is processed
\* twice, and when analyze_html_files returns every file has been processed
\* once and every file that did not fail has contributed its results.
C7_FailingFileSkipped ==
  /\ pc # "raised"
  /\ \A f \in DOMAIN files :
       Cardinality({ i \in 1..Len(visited) : visited[i] = f }) <= 1
  /\ Analyzed =>
       \A f \in DOMAIN files :
         /\ f \in Range(visited)
         /\ files[f].fail = "none" => Contributed(f)

\* the scan went past a failing file, then processed a file that contributed
C7_Witness ==
  /\ Analyzed
  /\ Len(visited) = 2
  /\ files[visited[1]].fail # "none"
  /\ files[visited[2]].fail = "none"
  /\ (all_content_selectors # <<>> \/ all_classes # {})

\* C8, as claimed: a step that processes a file whose processing raises leaves
\* the accumulated candidates and the boilerplate sets as they were.
C8_NoPartialContribution ==
  [][ \A f \in pending \ pending' :
        files[f].fail # "none" =>
          /\ all_content_selectors' = all_content_selectors
          /\ all_boilerplate' = all_boilerplate
          /\ all_classes' = all_classes
          /\ all_elements' = all_elements ]_vars

\* all_content_selectors after the files have been processed in the given order
RECURSIVE ScanContent(_)
ScanContent(order) ==
  IF order = <<>> THEN <<>>
  ELSE ContentAfter(ScanContent(SubSeq(order, 1, Len(order) - 1)),
                    files[order[Len(order)]])

\* all_boilerplate after the files have been processed in the given order
RECURSIVE ScanBoilerplate(_)
ScanBoilerplate(order) ==
  IF order = <<>> THEN EmptyBoilerplate
  ELSE BoilerplateAfter(ScanBoilerplate(SubSeq(order, 1, Len(order) - 1)),
                        files[order[Len(order)]])

\* the aggregated scores after the first k visited files
ScoresAfter(k) == CombineScores(ScanContent(SubSeq(visited, 1, k)))

\* C9: the accumulated state is the fold of the files visited so far, and
\* from any number of processed files to any larger number no selector leaves
\* the aggregate, no aggregated score decreases (so a score above 5.0 stays
\* above 5.0) and no boilerplate set loses a member.
C9_Monotonic ==
  prog = "config" =>
    /\ all_content_selectors = ScanContent(visited)
    /\ all_boilerplate = ScanBoilerplate(visited)
    /\ \A k, m \in 0..Len(visited) :
         k < m =>
           /\ \A i \in 1..Len(ScoresAfter(k)) :
                LET selector == ScoresAfter(k)[i].selector
                    score    == ScoresAfter(k)[i].score
                IN  /\ selector \in Range(SelectorsOf(ScoresAfter(m)))
                    /\ ScoreIn(ScoresAfter(m), selector) >= score
                    /\ score > 5 * ScoreDen
                         => ScoreIn(ScoresAfter(m), selector) > 5 * ScoreDen
           /\ ScanBoilerplate(SubSeq(visited, 1, k)).elements
                \subseteq ScanBoilerplate(SubSeq(visited, 1, m)).elements
           /\ ScanBoilerplate(SubSeq(visited, 1, k)).classes
                \subseteq ScanBoilerplate(SubSeq(visited, 1, m)).classes

\* a selector above 5.0 from the first file was met again, lower, in the second
C9_Witness ==
  /\ prog = "config"
  /\ NoFailure
  /\ Len(visited) = 2
  /\ all_boilerplate.elements # {}
  /\ \E i, j \in 1..Len(all_content_selectors) :
       /\ i < j
       /\ all_content_selectors[i].selector = all_content_selectors[j].selector
       /\ all_content_selectors[i].score > 5 * ScoreDen
       /\ all_content_selectors[j].score <= 5 * ScoreDen

\* the files in ascending order of their number: the reference visiting order
AscendingOrder == [ i \in 1..Len(files) |-> i ]

\* no two returned selectors have the same aggregated score
NoTies ==
  \A i, j \in 1..Len(analysis.content_selectors) :
    i # j => ScoreIn(selector_scores, analysis.content_selectors[i])
               # ScoreIn(selector_scores, analysis.content_selectors[j])

\* C10: whatever the order in which the files were visited, the selector ->
\* score mapping, the boilerplate sets and exclude_selectors are those of the
\* scan in ascending file order, and so is content_selector when no two
\* surviving selectors tie.
C10_OrderIndependent ==
  (prog = "config" /\ pc = "done") =>
    LET ref_scores == CombineScores(ScanContent(AscendingOrder))
        ref_boilerplate == ScanBoilerplate(AscendingOrder)
    IN  /\ Range(selector_scores) = Range(ref_scores)
        /\ all_boilerplate = ref_boilerplate
        /\ config.exclude_selectors = exclude_selectors_of(ref_boilerplate)
        /\ NoTies =>
             config.content_selector
               = content_selector_of(SelectorsOf(top_selectors(ref_scores)))

\* files visited against the ascending order, with another accumulated list,
\* a selector met in both files with different scores, and untied survivors
C10_Witness ==
  /\ prog = "config"
  /\ pc = "done"
  /\ NoFailure
  /\ visited = <<2, 1>>
  /\ all_content_selectors # ScanContent(AscendingOrder)
  /\ Len(selector_scores) < Len(all_content_selectors)
  /\ Len(analysis.content_selectors) >= 2
  /\ NoTies
  /\ all_boilerplate.classes # {}

\* the visiting order without the files that repeat an earlier file (same page,
\* same outcome)
RECURSIVE DistinctFiles(_)
DistinctFiles(order) ==
  IF order = <<>> THEN <<>>
  ELSE LET before == SubSeq(order, 1, Len(order) - 1)
           last   == order[Len(order)]
       IN  IF \E i \in 1..Len(before) : files[before[i]] = files[last]
           THEN DistinctFiles(before)
           ELSE Append(DistinctFiles(before), last)

\* C11: processing a page again changes nothing: the selector -> max mapping,
\* the boilerplate sets and the emitted configuration are those of the scan
\* that visits every repeated file only once.
C11_Idempotent ==
  prog = "config" =>
    LET once == DistinctFiles(visited)
        once_scores == CombineScores(ScanContent(once))
    IN  /\ CombineScores(all_content_selectors) = once_scores
        /\ all_boilerplate = ScanBoilerplate(once)
        /\ Analyzed => selector_scores = once_scores
        /\ pc = "done" =>
             /\ config.content_selector
                  = content_selector_of(SelectorsOf(top_selectors(once_scores)))
             /\ config.exclude_selectors
                  = exclude_selectors_of(ScanBoilerplate(once))

\* a configuration emitted for a directory holding the same page twice, with
\* candidates and boilerplate
C11_Witness ==
  /\ prog = "config"
  /\ pc = "done"
  /\ NoFailure
  /\ Len(visited) = 2
  /\ files[1] = files[2]
  /\ Len(all_content_selectors) = 2 * Len(selector_scores)
  /\ selector_scores # <<>>
  /\ config.content_selector # <<>>
  /\ all_boilerplate.classes # {}

\* the scorer has appended a (selector, score) pair for the element
Scored == pc = "scored" /\ scored.produced

\* what the classes of the scored element added to its score: the score less
\* the score of the same element without a class attribute
AddedByClasses ==
  scored.score - ElementScore([candidate EXCEPT !.classes = <<>>])

\* C12: the classes of an element add at most 3.0 to its score, and the
\* classes content, main-container, article-body add exactly 3.0.
C12_ClassBonusCapped ==
  Scored =>
    /\ AddedByClasses >= 0
    /\ AddedByClasses <= 3 * ScoreDen
    /\ candidate.classes = << s_content, s_main_container, s_article_body >>
         => AddedByClasses = 3 * ScoreDen

\* an element with the classes content, main-container, article-body, whose
\* uncapped class points exceed 3.0, has been scored
C12_Witness ==
  /\ Scored
  /\ candidate.classes = << s_content, s_main_container, s_article_body >>
  /\ class_score(candidate.classes) > 3 * ScoreDen

\* the (class position, indicator) pairs such that the lower-cased class
\* contains the indicator
Matches(classes) ==
  { m \in (1..Len(classes)) \X (1..Len(content_class_indicators)) :
      Contains(Lower(classes[m[1]]), content_class_indicators[m[2]].indicator) }

\* the indicators contained in at least one class, each once
MatchedIndicators(classes) ==
  { << 1, m[2] >> : m \in Matches(classes) }

\* the sum of the points of the indicators of a set of matches
RECURSIVE PointsOf(_)
PointsOf(matches) ==
  IF matches = {} THEN 0
  ELSE LET m == CHOOSE x \in matches : TRUE
       IN  content_class_indicators[m[2]].points + PointsOf(matches \ {m})

\* C13, as claimed: the classes add the points of every indicator contained in
\* at least one lower-cased class, each indicator once, capped at 3.0.
C13_EachIndicatorOnce ==
  Scored =>
    AddedByClasses
      = Min(PointsOf(MatchedIndicators(candidate.classes)), 3 * ScoreDen)

\* C13, amended: the classes add the points of every indicator once for each
\* class whose lower-cased form contains it, capped at 3.0.
C13_EachClassAndIndicator ==
  Scored =>
    AddedByClasses = Min(PointsOf(Matches(candidate.classes)), 3 * ScoreDen)

\* a scored element with two classes that contain the same indicator, whose
\* points counted once stay below the cap
C13_Witness ==
  /\ Scored
  /\ \E m, n \in Matches(candidate.classes) : m[1] # n[1] /\ m[2] = n[2]
  /\ PointsOf(MatchedIndicators(candidate.classes)) < 3 * ScoreDen

\* what the tag and the role of the scored element added to its score: the
\* score less the content components and the class bonus
AddedByTag ==
  LET metrics == analyze_element_content(candidate)
  IN  scored.score - LengthComponent(metrics) - DiversityComponent(metrics)
        - DensityComponent(metrics) - ClassBonus(candidate)

\* C14: the tag adds 3 for main and 2 more only for main with role="main", 2
\* for article, 1 for section and nothing for div; role="main" on an article,
\* section or div adds nothing.
C14_TagBonus ==
  Scored =>
    AddedByTag =
      ( IF candidate.name = s_main /\ candidate.role = s_main THEN 5 * ScoreDen
        ELSE IF candidate.name = s_main THEN 3 * ScoreDen
        ELSE IF candidate.name = s_article THEN 2 * ScoreDen
        ELSE IF candidate.name = s_section THEN ScoreDen
        ELSE 0 )

\* an article with role="main" has been scored
C14_Witness ==
  /\ Scored
  /\ candidate.name = s_article
  /\ candidate.role = s_main
  /\ AddedByTag = 2 * ScoreDen

\* C15: the length component is text_length / 1000 below 5000 characters,
\* strictly increasing there, and exactly 5 from 5000 characters on; the score
\* is the sum of the length, diversity, density, tag and capped class
\* components, and the sum itself is not capped.
C15_ScoreIsSumOfComponents ==
  Scored =>
    LET metrics == analyze_element_content(candidate)
        length  == scored.score - DiversityComponent(metrics)
                     - DensityComponent(metrics) - TagBonus(candidate)
                     - ClassBonus(candidate)
    IN  /\ candidate.text_length >= 5000 => length = 5 * ScoreDen
        /\ candidate.text_length < 5000 =>
             /\ length * 1000 = candidate.text_length * ScoreDen
             /\ length < 5 * ScoreDen
             /\ \A s \in ContentShapes :
                  s.text_length < candidate.text_length
                    => LengthComponent(s) < length
        /\ length = LengthComponent(metrics)
        /\ DiversityComponent(metrics) <= 3 * ScoreDen
        /\ DensityComponent(metrics) <= 2 * ScoreDen
        /\ scored.score
             = LengthComponent(metrics) + DiversityComponent(metrics)
                 + DensityComponent(metrics) + TagBonus(candidate)
                 + ClassBonus(candidate)

\* an element of 6000 characters has been scored, and its five components add
\* up to more than 15
C15_Witness ==
  /\ Scored
  /\ candidate.text_length > 5000
  /\ scored.score > 15 * ScoreDen

\* the positions of the classes of the scored element whose lower-cased form
\* contains an indicator
IndicatorClasses == { m[1] : m \in Matches(candidate.classes) }

\* the class part of the selector: nothing, .<class> for a single indicator
\* class, [class*="<first indicator class>"] for several
ClassPart ==
  IF IndicatorClasses = {} THEN <<>>
  ELSE LET first == CHOOSE i \in IndicatorClasses :
                      \A j \in IndicatorClasses : i <= j
       IN  IF Cardinality(IndicatorClasses) = 1
           THEN <<".">> \o candidate.classes[first]
           ELSE <<"[","c","l","a","s","s","*","=","\"">>
                  \o candidate.classes[first] \o <<"\"","]">>

\* [role="<value>"]
RolePart == <<"[","r","o","l","e","=","\"">> \o candidate.role \o <<"\"","]">>

\* <div class="article"> gives div.article, <div class="content main"> gives
\* div[class*="content"]
SelectorExamples ==
  (candidate.name = s_div /\ ~candidate.has_role) =>
    /\ candidate.classes = << s_article >>
         => scored.selector
              = <<"d","i","v",".","a","r","t","i","c","l","e">>
    /\ candidate.classes = << s_content, s_main >>
         => scored.selector
              = <<"d","i","v","[","c","l","a","s","s","*","=","\"",
                  "c","o","n","t","e","n","t","\"","]">>

MainRoleMain ==
  <<"m","a","i","n","[","r","o","l","e","=","\"","m","a","i","n","\"","]">>

\* the files of the corpus whose page is the stub
StubFiles == { f \in DOMAIN files : files[f].page = "stub" }

\* the scores of the <main role="main"> elements of the other pages, which all
\* have at least 50 characters
MainScores ==
  UNION { { ElementScore(Html(files[f])[i]) :
              i \in { j \in 1..Len(Html(files[f])) :
                        /\ Html(files[f])[j].name = s_main
                        /\ Html(files[f])[j].role = s_main
                        /\ Html(files[f])[j].text_length >= 50 } } :
          f \in DOMAIN files \ StubFiles }

\* C17: in the corpus of four pages with a <main role="main"> of varied
\* content and one stub page, visiting the stub neither removes
\* main[role="main"] from the aggregate nor lowers its score, wherever the stub
\* falls in the visiting order; the aggregated score is the highest score of
\* the four real main elements and the emitted content_selector contains
\* main[role="main"].
C17_StubHarmless ==
  /\ all_content_selectors = ScanContent(visited)
  /\ \A k \in 1..Len(visited) :
       (visited[k] \in StubFiles
          /\ MainRoleMain \in Range(SelectorsOf(ScoresAfter(k - 1))))
         => /\ MainRoleMain \in Range(SelectorsOf(ScoresAfter(k)))
            /\ ScoreIn(ScoresAfter(k), MainRoleMain)
                 >= ScoreIn(ScoresAfter(k - 1), MainRoleMain)
  /\ Analyzed =>
       /\ selector_scores = ScoresAfter(Len(visited))
       /\ MainRoleMain \in Range(SelectorsOf(selector_scores))
       /\ ScoreIn(selector_scores, MainRoleMain) \in MainScores
       /\ \A s \in MainScores : s <= ScoreIn(selector_scores, MainRoleMain)
       /\ MainRoleMain \in Range(analysis.content_selectors)
  /\ pc = "done" => Contains(config.content_selector, MainRoleMain)

\* a configuration emitted after the stub was visited behind a real page,
\* when main[role="main"] was already in the aggregate
C17_Witness ==
  /\ pc = "done"
  /\ Cardinality(MainScores) = 4
  /\ \E k \in 2..Len(visited) :
       /\ visited[k] \in StubFiles
       /\ MainRoleMain \in Range(SelectorsOf(ScoresAfter(k - 1)))
  /\ Contains(config.content_selector, MainRoleMain)

\* the visited files whose boilerplate extraction returned
Extracted == { f \in Range(visited) : files[f].fail = "none" }

\* the tag names and the class names of the pages of those files
SeenTags == UNION { PageTags(Html(files[f])) : f \in Extracted }

SeenClasses == UNION { PageClasses(Html(files[f])) : f \in Extracted }

\* the fixed lists of the detector that ran
TagList ==
  IF prog = "config" THEN boilerplate_elements ELSE script_boilerplate_elements

ClassList ==
  IF prog = "config" THEN boilerplate_classes ELSE script_boilerplate_classes

\* the lower-cased class contains one of the detector's class indicators
HasIndicator(cls) == \E indicator \in ClassList : Contains(Lower(cls), indicator)

\* C18, as claimed: in both detectors a tag is added exactly when it is in
\* the detector's tag list, and a class exactly when its lower-cased form
\* contains one of the detector's indicator strings.
C18_SubstringInBoth ==
  /\ FoundTags = { t \in SeenTags : t \in TagList }
  /\ FoundClasses = { cls \in SeenClasses : HasIndicator(cls) }

\* C18, amended: in both detectors a tag is added exactly when it is in the
\* detector's tag list; extract_boilerplate_selectors adds a class exactly when
\* its lower-cased form contains one of its indicator strings, and
\* extract_classes_and_elements adds a class exactly when the class is one of
\* the names of its list.
C18_SubstringOrExactName ==
  /\ FoundTags = { t \in SeenTags : t \in TagList }
  /\ prog = "config" =>
       FoundClasses = { cls \in SeenClasses : HasIndicator(cls) }
  /\ prog = "script" =>
       FoundClasses = { cls \in SeenClasses : cls \in ClassList }

\* the variant has seen a class that only contains one of its names (navbar,
\* Btn-Primary) and a class that is one of them (btn), and listed tags
C18_Witness ==
  /\ prog = "script"
  /\ \E cls \in SeenClasses : HasIndicator(cls) /\ cls \notin ClassList
  /\ \E cls \in SeenClasses : Lower(cls) # cls /\ HasIndicator(cls)
  /\ FoundClasses # {}
  /\ FoundTags # {}
  /\ SeenTags # FoundTags

\* C19: for a directory that does not exist or holds no .html file nothing
\* fails: the scan raises nothing, the selector mapping and both boilerplate
\* sets are empty, and a configuration is emitted with an empty
\* content_selector and an empty exclude_selectors list.
C19_EmptyDirectory ==
  (prog = "config" /\ files = <<>>) =>
    /\ pc \notin {"raised", "write_failed"}
    /\ all_content_selectors = <<>>
    /\ all_boilerplate = EmptyBoilerplate
    /\ Analyzed =>
         /\ selector_scores = <<>>
         /\ analysis.content_selectors = <<>>
         /\ analysis.boilerplate = EmptyBoilerplate
    /\ pc = "done" =>
         /\ config.content_selector = <<>>
         /\ config.exclude_selectors = <<>>

\* the distinct selector strings among the accumulated candidates
DistinctSelectors == Range(SelectorsOf(all_content_selectors))

\* C20: after any number of processed files the retained content candidates
\* hold the results of the files processed so far, with at most one entry per
\* distinct selector string, so that their number is bounded by the number of
\* distinct selectors and not by the number of files.
C20_OneEntryPerSelector ==
  prog = "config" =>
    /\ all_content_selectors = ScanContent(visited)
    /\ \A i, j \in 1..Len(all_content_selectors) :
         all_content_selectors[i].selector = all_content_selectors[j].selector
           => i = j
    /\ Len(all_content_selectors) <= Cardinality(DistinctSelectors)

\* the numbers of p, h1-h6, a, img and ul/ol descendants of the scored element
StructuralCounts ==
  << candidate.paragraphs, candidate.headings, candidate.links,
     candidate.images, candidate.lists >>

StructuralTotal ==
  candidate.paragraphs + candidate.headings + candidate.links
    + candidate.images + candidate.lists

CategoriesPresent ==
  Cardinality({ i \in 1..5 : StructuralCounts[i] > 0 })

Converted == pc = "converted"

\* the files the loop of process_directory has been through
Visited == Range(visited)

\* every file of the directory has been visited exactly once
EachVisitedOnce ==
  /\ Len(visited) = Len(files)
  /\ \A f \in DOMAIN files :
       Cardinality({ k \in DOMAIN visited : visited[k] = f }) = 1

\* C21: when the generated content_selector is the empty string, the
\* conversion stage writes no markdown file for any page, goes on to the
\* remaining pages after each one, and returns without failing
C21_EmptySelectorWritesNothing ==
  (prog = "process" /\ config.content_selector = <<>>)
    => /\ \A f \in DOMAIN files : ~written[f].exists
       /\ \A f \in Visited : log[f].outcome \in {"skipped", "error", "no_content"}
       /\ pc \in {"convert", "converted"}
       /\ Converted => EachVisitedOnce

\* a directory of two pages was converted with an empty content_selector,
\* one of them a page a non-empty selector finds content in
C21_Witness ==
  /\ prog = "process"
  /\ config.content_selector = <<>>
  /\ Converted
  /\ Len(files) = 2
  /\ \E f \in DOMAIN files :
       /\ files[f] = [ page |-> "test", fail |-> "none", depth |-> 1 ]
       /\ convert_html_to_md(Dom["test"], ConfigTest("inside"), TRUE).lines # <<>>

\* some element of the file's page matches the selector
SomeElementMatches(file, selector) ==
  \E i \in DOMAIN Dom[file.page] :
    SelectorMatches(ParseSelector(selector), Dom[file.page][i])

\* C22: HTMLConverter.convert_file raises ConversionError when no element of
\* the page matches content_selector; an unreadable file and an invalid
\* selector reach the caller as ConversionError too, never as another
\* exception and never as an empty result
C22_ConversionErrorOnly ==
  prog = "HTMLConverter"
    => \A f \in Visited :
         LET failed == \/ files[f].fail = "read"
                       \/ ~ParseSelector(config.content_selector).valid
                       \/ ~SomeElementMatches(files[f], config.content_selector)
         IN  /\ log[f].raised \in {"", "ConversionError"}
             /\ failed => /\ log[f].raised = "ConversionError"
                          /\ log[f].outcome = "error"
                          /\ ~written[f].exists
             /\ ~failed => log[f].raised = ""

\* HTMLConverter has been through a page without a main-content element and
\* an unreadable file, and has logged an error for both
C22_Witness ==
  /\ prog = "HTMLConverter"
  /\ ParseSelector(config.content_selector).valid
  /\ \E f, g \in Visited :
       /\ files[f].page = "bare" /\ files[f].fail = "none"
       /\ files[g].fail = "read"
       /\ log[f].outcome = "error"
       /\ log[g].outcome = "error"

\* what the converter of the running program makes of a file
ConversionOf(file) ==
  IF prog = "HTMLConverter" THEN convert_file(file, config)
  ELSE IF file.fail = "read" THEN Raised("OSError")
  ELSE convert_html_to_md(Dom[file.page], config, prog # "convert_site")

\* the conversion of the file neither fails nor comes back empty
YieldsContent(file) ==
  /\ ConversionOf(file).kind = "markdown"
  /\ ConversionOf(file).lines # <<>>

\* C23: once process_directory has returned, every file has been visited
\* exactly once, every file whose conversion yields content has its .md file
\* in the output directory, and a file whose conversion fails or yields no
\* content has none
C23_OutputIffContent ==
  Converted
    => /\ EachVisitedOnce
       /\ \A f \in DOMAIN files : written[f].exists <=> YieldsContent(files[f])

\* the content container the converter of the running program selects in the
\* page
ContainerOf(page) ==
  IF prog = "HTMLConverter"
  THEN select_one(page, ParseSelector(config.content_selector))
  ELSE FindMainContent(page, SplitOnComma(config.content_selector), 1)

\* element i of the page is, or lies inside, an element of the container that
\* matches one of the exclude selectors
Excluded(page, i) ==
  \E j \in DOMAIN page :
    /\ j # ContainerOf(page)
    /\ Within(page, j, ContainerOf(page))
    /\ \E k \in DOMAIN config.exclude_selectors :
         SelectorMatches(ParseSelector(config.exclude_selectors[k]), page[j])
    /\ Within(page, i, j)

\* C24: the text of an element appears in the written markdown exactly when
\* the element lies inside the selected container and neither it nor an
\* element around it inside the container matches an exclude selector
C24_ExcludedRemovedRestKept ==
  \A f \in DOMAIN files :
    written[f].exists
      => LET page == Dom[files[f].page]
         IN  \A i \in DOMAIN page :
               page[i].text # ""
                 => (page[i].text \in Range(written[f].lines)
                       <=> /\ Within(page, i, ContainerOf(page))
                           /\ ~Excluded(page, i))

\* the parts of content_selector as the converter's loop takes them
SelectorParts ==
  LET parts == SplitOnComma(config.content_selector)
  IN  [ k \in DOMAIN parts |-> Strip(parts[k]) ]

\* the k-th part matches some element of the page
PartMatches(page, k) ==
  \E i \in DOMAIN page : SelectorMatches(ParseSelector(SelectorParts[k]), page[i])

\* the first element of the page, in document order, that the k-th part matches
FirstMatchOf(page, k) ==
  CHOOSE i \in DOMAIN page :
    /\ SelectorMatches(ParseSelector(SelectorParts[k]), page[i])
    /\ \A j \in 1..(i - 1) :
         ~SelectorMatches(ParseSelector(SelectorParts[k]), page[j])

\* the texts of the elements at and below element c
TextsWithin(page, c) ==
  { page[i].text : i \in { j \in DOMAIN page : Within(page, j, c) } }

\* C26: the functional converters take the markdown of a page from the first
\* match of the highest-ranked part of content_selector that matches an
\* element, wherever in the document a lower-ranked part matches; when no part
\* matches, the conversion returns the empty string
C26_FirstRankedSelectorWins ==
  prog \in Functional
    => \A f \in Visited :
         (files[f].fail = "none" /\ ~TooDeep(files[f], config))
           => LET page == Dom[files[f].page]
                  hits == { k \in DOMAIN SelectorParts : PartMatches(page, k) }
              IN  IF hits = {}
                  THEN log[f].outcome = "no_content"
                  ELSE LET first == CHOOSE k \in hits : \A h \in hits : k <= h
                       IN  /\ log[f].outcome \in {"converted", "no_content"}
                           /\ Range(written[f].lines)
                                \subseteq TextsWithin(page, FirstMatchOf(page, first))

\* C27: every run of consolidate_markdown after the first, on converted files
\* that have not changed, finds the same sections and the same total_files as
\* the run before it
C27_ConsolidateIdempotent ==
  \A k \in 2..Len(runs) :
    /\ runs[k].sections = runs[k - 1].sections
    /\ runs[k].total_files = runs[k - 1].total_files

\* the selectors generate_config joins into content_selector
TopSelectors ==
  SubSeq(analysis.content_selectors, 1, Min(TopN, Len(analysis.content_selectors)))

\* C28: the parts the converter gets by splitting the generated
\* content_selector on commas and trimming each part are the top-ranked
\* selectors it was joined from, in rank order
C28_SplitRecoversSelectors ==
  (prog = "process" /\ Visited # {}) => SelectorParts = TopSelectors

====
